---- MODULE Spec2Model ----
(***************************************************************************)
(* Attribute carriers of opentelemetry-trace-sqs: the SQS carrier          *)
(* (package otelsqs) and the SNS carrier (package otelsns) adapt a message *)
(* attribute map to the get/set/keys contract of a trace propagator.       *)
(*                                                                         *)
(* Strings are modelled as tuples of tokens: the empty string is << >>,    *)
(* strings.Join(parts, "-") is the tuple of the parts.  A pointer is a     *)
(* tuple of length 0 (nil) or 1 (the pointee).  A map reference is a       *)
(* number, 0 being the nil map.                                            *)
(***************************************************************************)
EXTENDS Integers, Sequences, FiniteSets, TLC

VARIABLES
    sqsAttrs,               \* heap of SQS attribute maps: reference -> map
    snsAttrs,               \* heap of SNS attribute maps: reference -> map
    sqsCarrier,             \* the SqsCarrierAttributes in use
    snsCarrier,             \* the SnsCarrierAttributes in use
    defaultSqsPropagator,   \* package variable of otelsqs
    defaultSnsPropagator,   \* package variable of otelsns
    msgAttrs,               \* MessageAttributes of the received SQS message
    sentSqs,                \* per SQS map: the context whose injection filled it
    sentSns,                \* per SNS map: the context whose injection filled it
    ret,                    \* the last call: its arguments and what it returned
    carriers,               \* heap of the carriers that goroutines call concurrently
    goroutines,             \* per goroutine: its call in flight and where it stands
    listener                \* SqsListener: its position, its batch, the input queue

vars == <<sqsAttrs, snsAttrs, sqsCarrier, snsCarrier, defaultSqsPropagator,
          defaultSnsPropagator, msgAttrs, sentSqs, sentSns, ret, carriers, goroutines,
          listener>>

-----------------------------------------------------------------------------
(* Bounds *)

MaxPreload == 11       \* attributes the application put in a map beforehand
MaxTrace == 2          \* distinct non-zero trace ids
NumSqsMaps == 2        \* SQS attribute maps alive at once

(* Program constants *)

sqsMessageAttributeLimit == 10

NIL == 0

SqsRefs == 1 .. NumSqsMaps
SnsRefs == {1}

-----------------------------------------------------------------------------
(* Strings, pointers, attribute values, maps *)

EmptyString == << >>

NilPtr == << >>

Ptr(v) == << v >>

stringType == << "String" >>

binaryType == << "Binary" >>

\* types.MessageAttributeValue as Set builds it
StringAttribute(value) ==
    [DataType |-> Ptr(stringType), StringValue |-> Ptr(value), BinaryValue |-> << >>]

\* a binary attribute, as an application may put in its own message
BinaryAttribute(bytes) ==
    [DataType |-> Ptr(binaryType), StringValue |-> NilPtr, BinaryValue |-> bytes]

EmptyMap == [k \in {} |-> StringAttribute(EmptyString)]

MapPut(m, k, a) == [x \in (DOMAIN m) \cup {k} |-> IF x = k THEN a ELSE m[x]]

FillerKey(i) == "attr" \o ToString(i)

\* the map of an application that has already put n attributes of its own
Preload(n) ==
    [k \in {FillerKey(i) : i \in 1 .. n} |->
        IF k \in {FillerKey(i) : i \in {j \in 1 .. n : j % 2 = 0}}
        THEN BinaryAttribute(<< k >>)
        ELSE StringAttribute(<< k >>)]

RECURSIVE SetToSeq(_)
SetToSeq(S) ==
    IF S = {} THEN << >>
    ELSE LET x == CHOOSE y \in S : TRUE IN << x >> \o SetToSeq(S \ {x})

Range(s) == {s[i] : i \in DOMAIN s}

-----------------------------------------------------------------------------
(* Trace contexts *)

SpanFor(t) == IF t = 0 THEN 0 ELSE MaxTrace + 1 - t

\* the span context a context.Context carries
SpanContext(t, sampled, remote) ==
    [traceID |-> t, spanID |-> SpanFor(t), sampled |-> sampled, remote |-> remote]

\* the sampling decision taken for trace t
SampledFor(t) == t % 2 = 1

\* context.TODO() / context.Background(): no span, all-zero ids
NoSpan == SpanContext(0, FALSE, FALSE)

Contexts ==
    {NoSpan} \cup {SpanContext(t, SampledFor(t), FALSE) : t \in 1 .. MaxTrace}

IsValid(sc) == sc.traceID # 0 /\ sc.spanID # 0

\* TraceID.String(), SpanID.String()
IdString(n) == ToString(n)

\* TraceIDFromHex / SpanIDFromHex: -1 when the token is no id
ParseId(tok) ==
    IF \E n \in 0 .. MaxTrace : IdString(n) = tok
    THEN CHOOSE n \in 0 .. MaxTrace : IdString(n) = tok
    ELSE -1

-----------------------------------------------------------------------------
(* The propagators: b3.New() and b3.New(b3.WithInjectEncoding(B3MultipleHeader)) *)

b3ContextHeader == "b3"

b3TraceIDHeader == "x-b3-traceid"

b3SpanIDHeader == "x-b3-spanid"

b3SampledHeader == "x-b3-sampled"

TraceKeys == {b3ContextHeader, b3TraceIDHeader, b3SpanIDHeader, b3SampledHeader}

Propagators == {"B3Single", "B3Multi"}

SampledToken(sc) == IF sc.sampled THEN "1" ELSE "0"

\* the Set calls of the single-header Inject: one key, ids only when valid
B3SingleInject(sc) ==
    << << b3ContextHeader,
          (IF IsValid(sc) THEN << IdString(sc.traceID), IdString(sc.spanID) >>
                          ELSE << >>) \o << SampledToken(sc) >> >> >>

\* the Set calls of the multiple-header Inject: up to three keys
B3MultiInject(sc) ==
    (IF IsValid(sc)
     THEN << << b3TraceIDHeader, << IdString(sc.traceID) >> >>,
             << b3SpanIDHeader, << IdString(sc.spanID) >> >> >>
     ELSE << >>)
    \o << << b3SampledHeader, << SampledToken(sc) >> >> >>

\* propagator.Inject(ctx, carrier): the sequence of carrier.Set(key, value) calls
PropagatorInject(p, sc) ==
    IF p = "B3Single" THEN B3SingleInject(sc) ELSE B3MultiInject(sc)

NoParse == [ok |-> FALSE, sc |-> NoSpan]

\* extractSingle: "sampling" | "trace-span" | "trace-span-sampling"
B3ExtractSingle(h) ==
    IF Len(h) = 1
    THEN IF h[1] \in {"0", "1"}
         THEN [ok |-> TRUE, sc |-> [NoSpan EXCEPT !.sampled = (h[1] = "1")]]
         ELSE NoParse
    ELSE IF Len(h) \in {2, 3}
    THEN LET t == ParseId(h[1])
             s == ParseId(h[2])
         IN  IF t < 0 \/ s < 0 THEN NoParse
             ELSE IF Len(h) = 3 /\ h[3] \notin {"0", "1"} THEN NoParse
             ELSE [ok |-> TRUE,
                   sc |-> [traceID |-> t, spanID |-> s,
                           sampled |-> (Len(h) = 3 /\ h[3] = "1"),
                           remote |-> FALSE]]
    ELSE NoParse

OneToken(v) == IF Len(v) = 1 THEN v[1] ELSE ""

\* extractMultiple: both ids or neither
B3ExtractMultiple(traceID, spanID, sampled) ==
    IF sampled # EmptyString /\ OneToken(sampled) \notin {"0", "1"} THEN NoParse
    ELSE LET t == IF traceID = EmptyString THEN 0 ELSE ParseId(OneToken(traceID))
             s == IF spanID = EmptyString THEN 0 ELSE ParseId(OneToken(spanID))
         IN  IF t < 0 \/ s < 0 THEN NoParse
             ELSE IF (traceID = EmptyString) # (spanID = EmptyString) THEN NoParse
             ELSE [ok |-> TRUE,
                   sc |-> [traceID |-> t, spanID |-> s,
                           sampled |-> (sampled # EmptyString /\ OneToken(sampled) = "1"),
                           remote |-> FALSE]]

\* trace.ContextWithRemoteSpanContext
ContextWithRemoteSpanContext(sc) == [sc EXCEPT !.remote = TRUE]

\* propagator.Extract(ctx, carrier); get[k] is what carrier.Get(k) returns.
\* The single header wins when it holds a valid span context.
B3Extract(ctx, get) ==
    LET h == get[b3ContextHeader]
        single == B3ExtractSingle(h)
        multi == B3ExtractMultiple(get[b3TraceIDHeader], get[b3SpanIDHeader],
                                   get[b3SampledHeader])
    IN  IF h # EmptyString /\ single.ok /\ IsValid(single.sc)
        THEN ContextWithRemoteSpanContext(single.sc)
        ELSE IF multi.ok /\ IsValid(multi.sc)
        THEN ContextWithRemoteSpanContext(multi.sc)
        ELSE ctx

\* both encodings are read by the same Extract
PropagatorExtract(p, ctx, get) == B3Extract(ctx, get)

-----------------------------------------------------------------------------
(* The SQS carrier: SqsCarrierAttributes *)

ErrNone == "nil"

ErrMaxAttrLimit == "max attribute limit reached"

ErrMessageAttributesIsNil == "message attributes is nil"

Carrier(ref, p) == [messageAttributes |-> ref, propagator |-> p]

\* c.WithPropagator(propagator)
SqsWithPropagator(c, p) == [c EXCEPT !.propagator = p]

\* NewCarrier(): unattached, with the package default of the moment
SqsNewCarrier(default) == SqsWithPropagator(Carrier(NIL, default), default)

\* attach that keeps the map a carrier already has
SqsAttach_KeepFirst(c, ref) ==
    IF ref = NIL
    THEN [panicked |-> TRUE, c |-> c]
    ELSE IF c.messageAttributes # NIL
    THEN [panicked |-> FALSE, c |-> c]
    ELSE [panicked |-> FALSE, c |-> [c EXCEPT !.messageAttributes = ref]]

\* c.attach(messageAttributes): panics on the nil map
SqsAttach(c, ref) ==
    IF ref = NIL
    THEN [panicked |-> TRUE, c |-> c]
    ELSE [panicked |-> FALSE, c |-> [c EXCEPT !.messageAttributes = ref]]

\* Get that answers with the type tag: for a missing entry
SqsGet_DefaultTag(c, heap, key) ==
    IF c.messageAttributes = NIL THEN EmptyString
    ELSE LET m == heap[c.messageAttributes]
         IN  IF key \notin DOMAIN m THEN stringType
             ELSE IF m[key].StringValue = NilPtr THEN EmptyString
             ELSE m[key].StringValue[1]

\* Get that reads DataType where it should read StringValue
SqsGet_TypeTag(c, heap, key) ==
    IF c.messageAttributes = NIL THEN EmptyString
    ELSE LET m == heap[c.messageAttributes]
         IN  IF key \notin DOMAIN m THEN EmptyString
             ELSE IF m[key].DataType = NilPtr THEN EmptyString
             ELSE m[key].DataType[1]

\* Get that falls back on the binary payload of an entry without a string
SqsGet_BinaryFallback(c, heap, key) ==
    IF c.messageAttributes = NIL THEN EmptyString
    ELSE LET m == heap[c.messageAttributes]
         IN  IF key \notin DOMAIN m THEN EmptyString
             ELSE IF m[key].StringValue = NilPtr THEN m[key].BinaryValue
             ELSE m[key].StringValue[1]

\* c.Get(key)
SqsGet(c, heap, key) ==
    IF c.messageAttributes = NIL THEN EmptyString
    ELSE LET m == heap[c.messageAttributes]
         IN  IF key \notin DOMAIN m THEN EmptyString
             ELSE IF m[key].StringValue = NilPtr THEN EmptyString
             ELSE m[key].StringValue[1]

\* Set that keeps an entry already present
SqsSet_NoOverwrite(c, heap, key, value) ==
    IF c.messageAttributes = NIL THEN heap
    ELSE IF key \in DOMAIN heap[c.messageAttributes] THEN heap
    ELSE [heap EXCEPT ![c.messageAttributes] = MapPut(@, key, StringAttribute(value))]

\* Set that starts a new map for every entry
SqsSet_FreshMap(c, heap, key, value) ==
    IF c.messageAttributes = NIL THEN heap
    ELSE [heap EXCEPT ![c.messageAttributes] = MapPut(EmptyMap, key, StringAttribute(value))]

\* Set that, unattached, makes up a map to write into (here: the first one)
SqsSet_CreateMap(c, heap, key, value) ==
    IF c.messageAttributes = NIL
    THEN [heap EXCEPT ![1] = MapPut(@, key, StringAttribute(value))]
    ELSE [heap EXCEPT ![c.messageAttributes] = MapPut(@, key, StringAttribute(value))]

\* Set that updates the fields of an entry already there and keeps the rest of it
SqsSet_Merge(c, heap, key, value) ==
    IF c.messageAttributes = NIL THEN heap
    ELSE IF key \in DOMAIN heap[c.messageAttributes]
    THEN [heap EXCEPT ![c.messageAttributes][key] =
              [@ EXCEPT !.DataType = Ptr(stringType), !.StringValue = Ptr(value)]]
    ELSE [heap EXCEPT ![c.messageAttributes] = MapPut(@, key, StringAttribute(value))]

\* c.Set(key, value): the heap after the call
SqsSet(c, heap, key, value) ==
    IF c.messageAttributes = NIL THEN heap
    ELSE [heap EXCEPT ![c.messageAttributes] = MapPut(@, key, StringAttribute(value))]

\* Keys that lists the entries with a string payload only
SqsKeys_StringOnly(c, heap) ==
    IF c.messageAttributes = NIL THEN << >>
    ELSE LET m == heap[c.messageAttributes]
         IN  SetToSeq({k \in DOMAIN m : m[k].StringValue # NilPtr})

\* c.Keys(): one append per map entry
SqsKeys(c, heap) ==
    IF c.messageAttributes = NIL THEN << >>
    ELSE SetToSeq(DOMAIN heap[c.messageAttributes])

\* the propagator's Set calls, in order, through the carrier
RECURSIVE SqsApplySets(_, _, _)
SqsApplySets(c, heap, calls) ==
    IF calls = << >> THEN heap
    ELSE SqsApplySets(c, SqsSet(c, heap, Head(calls)[1], Head(calls)[2]), Tail(calls))

\* the count check with > where the code has >=
SqsOverLimit_GT(m) == Cardinality(DOMAIN m) > sqsMessageAttributeLimit

\* no count check at all
SqsOverLimit_Never(m) == FALSE

\* len(messageAttributes) >= sqsMessageAttributeLimit
SqsOverLimit(m) == Cardinality(DOMAIN m) >= sqsMessageAttributeLimit

\* Inject that lets the propagator write into a private copy of the map
SqsInject_Copy(c, heap, ctx, ref) ==
    IF ref = NIL
    THEN [err |-> ErrMessageAttributesIsNil, c |-> c, heap |-> heap,
          propCalls |-> 0, setCalls |-> 0, panicked |-> FALSE]
    ELSE IF SqsOverLimit(heap[ref])
    THEN [err |-> ErrMaxAttrLimit, c |-> c, heap |-> heap,
          propCalls |-> 0, setCalls |-> 0, panicked |-> FALSE]
    ELSE LET a == SqsAttach(c, ref)
             calls == PropagatorInject(a.c.propagator, ctx)
         IN  [err |-> ErrNone, c |-> a.c, heap |-> heap,
              propCalls |-> 1, setCalls |-> Len(calls), panicked |-> FALSE]

\* Inject that asks for the package default when it runs, not the carrier's own
SqsInject_UseDefault(c, heap, ctx, ref) ==
    IF ref = NIL
    THEN [err |-> ErrMessageAttributesIsNil, c |-> c, heap |-> heap,
          propCalls |-> 0, setCalls |-> 0, panicked |-> FALSE]
    ELSE IF SqsOverLimit(heap[ref])
    THEN [err |-> ErrMaxAttrLimit, c |-> c, heap |-> heap,
          propCalls |-> 0, setCalls |-> 0, panicked |-> FALSE]
    ELSE LET a == SqsAttach(c, ref)
             calls == PropagatorInject(defaultSqsPropagator, ctx)
         IN  [err |-> ErrNone, c |-> a.c, heap |-> SqsApplySets(a.c, heap, calls),
              propCalls |-> 1, setCalls |-> Len(calls), panicked |-> FALSE]

\* c.Inject(ctx, messageAttributes)
\* Inject attaches before it looks at the attribute count
SqsInject_AttachFirst(c, heap, ctx, ref) ==
    IF ref = NIL
    THEN [err |-> ErrMessageAttributesIsNil, c |-> c, heap |-> heap,
          propCalls |-> 0, setCalls |-> 0, panicked |-> FALSE]
    ELSE LET a == SqsAttach(c, ref)
             calls == PropagatorInject(a.c.propagator, ctx)
         IN  IF a.panicked
             THEN [err |-> ErrNone, c |-> c, heap |-> heap,
                   propCalls |-> 0, setCalls |-> 0, panicked |-> TRUE]
             ELSE IF SqsOverLimit(heap[ref])
             THEN [err |-> ErrMaxAttrLimit, c |-> a.c, heap |-> heap,
                   propCalls |-> 0, setCalls |-> 0, panicked |-> FALSE]
             ELSE [err |-> ErrNone, c |-> a.c, heap |-> SqsApplySets(a.c, heap, calls),
                   propCalls |-> 1, setCalls |-> Len(calls), panicked |-> FALSE]

SqsInject(c, heap, ctx, ref) ==
    IF ref = NIL
    THEN [err |-> ErrMessageAttributesIsNil, c |-> c, heap |-> heap,
          propCalls |-> 0, setCalls |-> 0, panicked |-> FALSE]
    ELSE IF SqsOverLimit(heap[ref])
    THEN [err |-> ErrMaxAttrLimit, c |-> c, heap |-> heap,
          propCalls |-> 0, setCalls |-> 0, panicked |-> FALSE]
    ELSE LET a == SqsAttach(c, ref)
             calls == PropagatorInject(a.c.propagator, ctx)
         IN  IF a.panicked
             THEN [err |-> ErrNone, c |-> c, heap |-> heap,
                   propCalls |-> 0, setCalls |-> 0, panicked |-> TRUE]
             ELSE [err |-> ErrNone, c |-> a.c, heap |-> SqsApplySets(a.c, heap, calls),
                   propCalls |-> 1, setCalls |-> Len(calls), panicked |-> FALSE]

\* Extract that forgets to attach the map it is given
SqsExtract_NoAttach(c, heap, ctx, ref) ==
    IF ref = NIL
    THEN [ctx |-> ctx, c |-> c, propCalls |-> 0, panicked |-> FALSE]
    ELSE [ctx |-> PropagatorExtract(c.propagator, ctx, [k \in TraceKeys |-> SqsGet(c, heap, k)]),
          c |-> c, propCalls |-> 1, panicked |-> FALSE]

\* Extract without the nil test: attach panics on the nil map
SqsExtract_NoNilCheck(c, heap, ctx, ref) ==
    LET a == SqsAttach(c, ref)
    IN  IF a.panicked
        THEN [ctx |-> ctx, c |-> c, propCalls |-> 0, panicked |-> TRUE]
        ELSE [ctx |-> PropagatorExtract(a.c.propagator, ctx,
                                        [k \in TraceKeys |-> SqsGet(a.c, heap, k)]),
              c |-> a.c, propCalls |-> 1, panicked |-> FALSE]

\* c.Extract(ctx, messageAttributes)
SqsExtract(c, heap, ctx, ref) ==
    IF ref = NIL
    THEN [ctx |-> ctx, c |-> c, propCalls |-> 0, panicked |-> FALSE]
    ELSE LET a == SqsAttach(c, ref)
         IN  IF a.panicked
             THEN [ctx |-> ctx, c |-> c, propCalls |-> 0, panicked |-> TRUE]
             ELSE [ctx |-> PropagatorExtract(a.c.propagator, ctx,
                                             [k \in TraceKeys |-> SqsGet(a.c, heap, k)]),
                   c |-> a.c, propCalls |-> 1, panicked |-> FALSE]

-----------------------------------------------------------------------------
(* The SNS carrier: SnsCarrierAttributes *)

SnsWithPropagator(c, p) == [c EXCEPT !.propagator = p]

SnsNewCarrier(default) == SnsWithPropagator(Carrier(NIL, default), default)

SnsAttach(c, ref) ==
    IF ref = NIL
    THEN [panicked |-> TRUE, c |-> c]
    ELSE [panicked |-> FALSE, c |-> [c EXCEPT !.messageAttributes = ref]]

SnsGet(c, heap, key) ==
    IF c.messageAttributes = NIL THEN EmptyString
    ELSE LET m == heap[c.messageAttributes]
         IN  IF key \notin DOMAIN m THEN EmptyString
             ELSE IF m[key].StringValue = NilPtr THEN EmptyString
             ELSE m[key].StringValue[1]

\* Set that tags the entry and leaves the payload out
SnsSet_NoPayload(c, heap, key, value) ==
    IF c.messageAttributes = NIL THEN heap
    ELSE [heap EXCEPT ![c.messageAttributes] =
              MapPut(@, key, [StringAttribute(value) EXCEPT !.StringValue = NilPtr])]

SnsSet(c, heap, key, value) ==
    IF c.messageAttributes = NIL THEN heap
    ELSE [heap EXCEPT ![c.messageAttributes] = MapPut(@, key, StringAttribute(value))]

SnsKeys(c, heap) ==
    IF c.messageAttributes = NIL THEN << >>
    ELSE SetToSeq(DOMAIN heap[c.messageAttributes])

RECURSIVE SnsApplySets(_, _, _)
SnsApplySets(c, heap, calls) ==
    IF calls = << >> THEN heap
    ELSE SnsApplySets(c, SnsSet(c, heap, Head(calls)[1], Head(calls)[2]), Tail(calls))

\* Inject without the nil test: attach panics on the nil map
SnsInject_NoNilCheck(c, heap, ctx, ref) ==
    LET a == SnsAttach(c, ref)
        calls == PropagatorInject(a.c.propagator, ctx)
    IN  IF a.panicked
        THEN [err |-> ErrNone, c |-> c, heap |-> heap,
              propCalls |-> 0, setCalls |-> 0, panicked |-> TRUE]
        ELSE [err |-> ErrNone, c |-> a.c, heap |-> SnsApplySets(a.c, heap, calls),
              propCalls |-> 1, setCalls |-> Len(calls), panicked |-> FALSE]

\* c.Inject(ctx, messageAttributes): no count check in the SNS carrier
SnsInject(c, heap, ctx, ref) ==
    IF ref = NIL
    THEN [err |-> ErrMessageAttributesIsNil, c |-> c, heap |-> heap,
          propCalls |-> 0, setCalls |-> 0, panicked |-> FALSE]
    ELSE LET a == SnsAttach(c, ref)
             calls == PropagatorInject(a.c.propagator, ctx)
         IN  IF a.panicked
             THEN [err |-> ErrNone, c |-> c, heap |-> heap,
                   propCalls |-> 0, setCalls |-> 0, panicked |-> TRUE]
             ELSE [err |-> ErrNone, c |-> a.c, heap |-> SnsApplySets(a.c, heap, calls),
                   propCalls |-> 1, setCalls |-> Len(calls), panicked |-> FALSE]

\* copyAttributes: a new SQS map with one entry per SNS entry, field by field
CopyAttributes(from) ==
    [k \in DOMAIN from |->
        [DataType |-> from[k].DataType,
         BinaryValue |-> from[k].BinaryValue,
         StringValue |-> from[k].StringValue]]

-----------------------------------------------------------------------------
(* Inputs of the calls *)

SetKeys == {"key1", "key2"}

GetKeys == SetKeys \cup {FillerKey(1), FillerKey(2), b3ContextHeader}

SetValues == {<< "value1" >>, << "value2" >>}

\* the maps the sending side hands to the SQS carrier
SendRefs == {NIL, 1}

\* how many attributes the application put in its map before the carrier sees
\* it: none, or a count within reach of the limit
Preloads ==
    {0} \cup {n \in 0 .. MaxPreload :
                 n + Len(B3MultiInject(SpanContext(1, TRUE, FALSE))) > sqsMessageAttributeLimit}

\* the same for a publish input: none, or as many as SQS would refuse
PublishPreloads == {0, sqsMessageAttributeLimit}

\* the last call, before any call
Ret0 ==
    [op |-> "init", carrier |-> "", ref |-> NIL, key |-> "", value |-> EmptyString,
     err |-> "", inCtx |-> NoSpan, ctx |-> NoSpan, out |-> EmptyString, keys |-> << >>,
     propCalls |-> 0, setCalls |-> 0, panicked |-> FALSE,
     before |-> EmptyMap, attached |-> NIL, twice |-> FALSE, before0 |-> EmptyMap,
     propagator |-> ""]

MapAt(heap, ref) == IF ref = NIL THEN EmptyMap ELSE heap[ref]

\* the call before this one was Set on the same key through the same carrier
SameSetBefore(carrier, key) == ret.op = "Set" /\ ret.carrier = carrier /\ ret.key = key

\* a panic ends the process
Running == ~ret.panicked

\* what an injection into map m leaves to be extracted: the injected context
\* when the map held no propagation key before
Sent(m, ctx, r) ==
    IF r.err = ErrNone /\ ~r.panicked /\ (DOMAIN m) \cap TraceKeys = {} THEN {ctx} ELSE {}

\* the messages on the input queue; message m has its attributes in map m
Msgs == {1, 2}

\* SqsListener before its loop: nothing received yet; no message here has a map
Listener0 ==
    [pc |-> "receive", batch |-> << >>, i |-> 0, queue |-> {},
     attrs |-> [m \in Msgs |-> NIL], handled |-> << >>, deletes |-> << >>]

\* the goroutines that call the SQS carrier at the same time, goroutine g on
\* the map of its own message, map g
Goroutines == {1, 2}

\* a goroutine with no call in flight
Idle ==
    [pc |-> "idle", op |-> "", ctx |-> NoSpan, ref |-> NIL, c |-> 0,
     calls |-> << >>, keys |-> << >>, got |-> [k \in TraceKeys |-> EmptyString],
     err |-> "", out |-> NoSpan, wrote |-> {}, readFrom |-> {}]

\* one carrier object per goroutine; the first is the one a program may share
Carriers0 == [c \in Goroutines |-> SqsNewCarrier("B3Single")]

-----------------------------------------------------------------------------
(* Calls on the SQS carrier *)

SqsSetTextMapPropagatorCall(p) ==
    /\ Running
    /\ defaultSqsPropagator' = p
    /\ ret' = [Ret0 EXCEPT !.op = "SetTextMapPropagator", !.carrier = "sqs",
                           !.propagator = p, !.attached = sqsCarrier.messageAttributes]
    /\ UNCHANGED <<sqsAttrs, snsAttrs, sqsCarrier, snsCarrier, defaultSnsPropagator,
                   msgAttrs, sentSqs, sentSns,
                   carriers, goroutines, listener>>

SqsNewCarrierCall ==
    /\ Running
    /\ sqsCarrier' = SqsNewCarrier(defaultSqsPropagator)
    /\ ret' = [Ret0 EXCEPT !.op = "NewCarrier", !.carrier = "sqs",
                           !.attached = sqsCarrier.messageAttributes]
    /\ UNCHANGED <<sqsAttrs, snsAttrs, snsCarrier, defaultSqsPropagator,
                   defaultSnsPropagator, msgAttrs, sentSqs, sentSns,
                   carriers, goroutines, listener>>

SqsWithPropagatorCall(p) ==
    /\ Running
    /\ sqsCarrier' = SqsWithPropagator(sqsCarrier, p)
    /\ ret' = [Ret0 EXCEPT !.op = "WithPropagator", !.carrier = "sqs",
                           !.propagator = p, !.attached = sqsCarrier.messageAttributes]
    /\ UNCHANGED <<sqsAttrs, snsAttrs, snsCarrier, defaultSqsPropagator,
                   defaultSnsPropagator, msgAttrs, sentSqs, sentSns,
                   carriers, goroutines, listener>>

SqsInjectCall(ctx, ref) ==
    /\ Running
    /\ LET r == SqsInject(sqsCarrier, sqsAttrs, ctx, ref)
       IN  /\ sqsCarrier' = r.c
           /\ sqsAttrs' = r.heap
           /\ sentSqs' = IF ref = NIL \/ r.setCalls = 0 THEN sentSqs
                         ELSE [sentSqs EXCEPT ![ref] = Sent(sqsAttrs[ref], ctx, r)]
           /\ ret' = [Ret0 EXCEPT !.op = "Inject", !.carrier = "sqs", !.ref = ref,
                                  !.inCtx = ctx, !.err = r.err,
                                  !.propCalls = r.propCalls, !.setCalls = r.setCalls,
                                  !.panicked = r.panicked,
                                  !.before = MapAt(sqsAttrs, ref),
                                  !.attached = sqsCarrier.messageAttributes]
    /\ UNCHANGED <<snsAttrs, snsCarrier, defaultSqsPropagator, defaultSnsPropagator,
                   msgAttrs, sentSns,
                   carriers, goroutines, listener>>

\* Extract consumes the header it reads: the b3 entry is gone from the map
SqsExtractCall_Consume(ctx, ref) ==
    /\ Running
    /\ LET r == SqsExtract(sqsCarrier, sqsAttrs, ctx, ref)
       IN  /\ sqsCarrier' = r.c
           /\ sqsAttrs' = IF ref = NIL THEN sqsAttrs
                          ELSE [sqsAttrs EXCEPT ![ref] =
                                   [k \in (DOMAIN @) \ {b3ContextHeader} |-> @[k]]]
           /\ ret' = [Ret0 EXCEPT !.op = "Extract", !.carrier = "sqs", !.ref = ref,
                                  !.inCtx = ctx, !.ctx = r.ctx,
                                  !.propCalls = r.propCalls, !.panicked = r.panicked,
                                  !.before = MapAt(sqsAttrs, ref),
                                  !.attached = sqsCarrier.messageAttributes]
    /\ UNCHANGED <<snsAttrs, snsCarrier, defaultSqsPropagator,
                   defaultSnsPropagator, msgAttrs, sentSqs, sentSns,
                   carriers, goroutines, listener>>

SqsExtractCall(ctx, ref) ==
    /\ Running
    /\ LET r == SqsExtract(sqsCarrier, sqsAttrs, ctx, ref)
       IN  /\ sqsCarrier' = r.c
           /\ ret' = [Ret0 EXCEPT !.op = "Extract", !.carrier = "sqs", !.ref = ref,
                                  !.inCtx = ctx, !.ctx = r.ctx,
                                  !.propCalls = r.propCalls, !.panicked = r.panicked,
                                  !.before = MapAt(sqsAttrs, ref),
                                  !.attached = sqsCarrier.messageAttributes]
    /\ UNCHANGED <<sqsAttrs, snsAttrs, snsCarrier, defaultSqsPropagator,
                   defaultSnsPropagator, msgAttrs, sentSqs, sentSns,
                   carriers, goroutines, listener>>

SqsGetCall(key) ==
    /\ Running
    /\ ret' = [Ret0 EXCEPT !.op = "Get", !.carrier = "sqs", !.key = key,
                           !.ref = sqsCarrier.messageAttributes,
                           !.out = SqsGet(sqsCarrier, sqsAttrs, key),
                           !.before = MapAt(sqsAttrs, sqsCarrier.messageAttributes),
                           !.attached = sqsCarrier.messageAttributes]
    /\ UNCHANGED <<sqsAttrs, snsAttrs, sqsCarrier, snsCarrier, defaultSqsPropagator,
                   defaultSnsPropagator, msgAttrs, sentSqs, sentSns,
                   carriers, goroutines, listener>>

SqsSetCall(key, value) ==
    /\ Running
    /\ sqsAttrs' = SqsSet(sqsCarrier, sqsAttrs, key, value)
    /\ sentSqs' = IF sqsCarrier.messageAttributes = NIL THEN sentSqs
                  ELSE [sentSqs EXCEPT ![sqsCarrier.messageAttributes] = {}]
    /\ ret' = [Ret0 EXCEPT !.op = "Set", !.carrier = "sqs", !.key = key, !.value = value,
                           !.ref = sqsCarrier.messageAttributes,
                           !.before = MapAt(sqsAttrs, sqsCarrier.messageAttributes),
                           !.attached = sqsCarrier.messageAttributes,
                           !.twice = SameSetBefore("sqs", key),
                           !.before0 = IF SameSetBefore("sqs", key) THEN ret.before
                                       ELSE EmptyMap]
    /\ UNCHANGED <<snsAttrs, sqsCarrier, snsCarrier, defaultSqsPropagator,
                   defaultSnsPropagator, msgAttrs, sentSns,
                   carriers, goroutines, listener>>

SqsKeysCall ==
    /\ Running
    /\ ret' = [Ret0 EXCEPT !.op = "Keys", !.carrier = "sqs",
                           !.ref = sqsCarrier.messageAttributes,
                           !.keys = SqsKeys(sqsCarrier, sqsAttrs),
                           !.before = MapAt(sqsAttrs, sqsCarrier.messageAttributes),
                           !.attached = sqsCarrier.messageAttributes]
    /\ UNCHANGED <<sqsAttrs, snsAttrs, sqsCarrier, snsCarrier, defaultSqsPropagator,
                   defaultSnsPropagator, msgAttrs, sentSqs, sentSns,
                   carriers, goroutines, listener>>

-----------------------------------------------------------------------------
(* The SQS carrier on the sending and receiving side of one process *)

Init ==
    /\ \E n \in Preloads :
          sqsAttrs = [r \in SqsRefs |-> IF r = 1 THEN Preload(n) ELSE EmptyMap]
    /\ snsAttrs = [r \in SnsRefs |-> EmptyMap]
    /\ defaultSqsPropagator = "B3Single"
    /\ defaultSnsPropagator = "B3Single"
    /\ sqsCarrier = SqsNewCarrier("B3Single")
    /\ snsCarrier = SnsNewCarrier("B3Single")
    /\ msgAttrs = NIL
    /\ sentSqs = [r \in SqsRefs |-> {}]
    /\ sentSns = [r \in SnsRefs |-> {}]
    /\ ret = Ret0
    /\ carriers = Carriers0
    /\ goroutines = [g \in Goroutines |-> Idle]
    /\ listener = Listener0

Next ==
    \/ \E p \in Propagators : SqsSetTextMapPropagatorCall(p)
    \/ SqsNewCarrierCall
    \/ \E p \in Propagators : SqsWithPropagatorCall(p)
    \/ \E ctx \in Contexts, ref \in SendRefs : SqsInjectCall(ctx, ref)
    \/ \E ctx \in Contexts, ref \in SendRefs : SqsExtractCall(ctx, ref)
    \/ \E key \in GetKeys : SqsGetCall(key)
    \/ \E key \in SetKeys, value \in SetValues : SqsSetCall(key, value)
    \/ SqsKeysCall

Spec == Init /\ [][Next]_vars

-----------------------------------------------------------------------------
(* Calls on the SNS carrier, and the SNS-to-SQS fanout *)

SnsSetTextMapPropagatorCall(p) ==
    /\ Running
    /\ defaultSnsPropagator' = p
    /\ ret' = [Ret0 EXCEPT !.op = "SetTextMapPropagator", !.carrier = "sns",
                           !.propagator = p, !.attached = snsCarrier.messageAttributes]
    /\ UNCHANGED <<sqsAttrs, snsAttrs, sqsCarrier, snsCarrier, defaultSqsPropagator,
                   msgAttrs, sentSqs, sentSns,
                   carriers, goroutines, listener>>

SnsNewCarrierCall ==
    /\ Running
    /\ snsCarrier' = SnsNewCarrier(defaultSnsPropagator)
    /\ ret' = [Ret0 EXCEPT !.op = "NewCarrier", !.carrier = "sns",
                           !.attached = snsCarrier.messageAttributes]
    /\ UNCHANGED <<sqsAttrs, snsAttrs, sqsCarrier, defaultSqsPropagator,
                   defaultSnsPropagator, msgAttrs, sentSqs, sentSns,
                   carriers, goroutines, listener>>

SnsWithPropagatorCall(p) ==
    /\ Running
    /\ snsCarrier' = SnsWithPropagator(snsCarrier, p)
    /\ ret' = [Ret0 EXCEPT !.op = "WithPropagator", !.carrier = "sns",
                           !.propagator = p, !.attached = snsCarrier.messageAttributes]
    /\ UNCHANGED <<sqsAttrs, snsAttrs, sqsCarrier, defaultSqsPropagator,
                   defaultSnsPropagator, msgAttrs, sentSqs, sentSns,
                   carriers, goroutines, listener>>

SnsInjectCall(ctx, ref) ==
    /\ Running
    /\ LET r == SnsInject(snsCarrier, snsAttrs, ctx, ref)
       IN  /\ snsCarrier' = r.c
           /\ snsAttrs' = r.heap
           /\ sentSns' = IF ref = NIL \/ r.setCalls = 0 THEN sentSns
                         ELSE [sentSns EXCEPT ![ref] = Sent(snsAttrs[ref], ctx, r)]
           /\ ret' = [Ret0 EXCEPT !.op = "Inject", !.carrier = "sns", !.ref = ref,
                                  !.inCtx = ctx, !.err = r.err,
                                  !.propCalls = r.propCalls, !.setCalls = r.setCalls,
                                  !.panicked = r.panicked,
                                  !.before = MapAt(snsAttrs, ref),
                                  !.attached = snsCarrier.messageAttributes]
    /\ UNCHANGED <<sqsAttrs, sqsCarrier, defaultSqsPropagator, defaultSnsPropagator,
                   msgAttrs, sentSqs,
                   carriers, goroutines, listener>>

SnsGetCall(key) ==
    /\ Running
    /\ ret' = [Ret0 EXCEPT !.op = "Get", !.carrier = "sns", !.key = key,
                           !.ref = snsCarrier.messageAttributes,
                           !.out = SnsGet(snsCarrier, snsAttrs, key),
                           !.before = MapAt(snsAttrs, snsCarrier.messageAttributes),
                           !.attached = snsCarrier.messageAttributes]
    /\ UNCHANGED <<sqsAttrs, snsAttrs, sqsCarrier, snsCarrier, defaultSqsPropagator,
                   defaultSnsPropagator, msgAttrs, sentSqs, sentSns,
                   carriers, goroutines, listener>>

SnsSetCall(key, value) ==
    /\ Running
    /\ snsAttrs' = SnsSet(snsCarrier, snsAttrs, key, value)
    /\ sentSns' = IF snsCarrier.messageAttributes = NIL THEN sentSns
                  ELSE [sentSns EXCEPT ![snsCarrier.messageAttributes] = {}]
    /\ ret' = [Ret0 EXCEPT !.op = "Set", !.carrier = "sns", !.key = key, !.value = value,
                           !.ref = snsCarrier.messageAttributes,
                           !.before = MapAt(snsAttrs, snsCarrier.messageAttributes),
                           !.attached = snsCarrier.messageAttributes,
                           !.twice = SameSetBefore("sns", key),
                           !.before0 = IF SameSetBefore("sns", key) THEN ret.before
                                       ELSE EmptyMap]
    /\ UNCHANGED <<sqsAttrs, sqsCarrier, snsCarrier, defaultSqsPropagator,
                   defaultSnsPropagator, msgAttrs, sentSqs,
                   carriers, goroutines, listener>>

SnsKeysCall ==
    /\ Running
    /\ ret' = [Ret0 EXCEPT !.op = "Keys", !.carrier = "sns",
                           !.ref = snsCarrier.messageAttributes,
                           !.keys = SnsKeys(snsCarrier, snsAttrs),
                           !.before = MapAt(snsAttrs, snsCarrier.messageAttributes),
                           !.attached = snsCarrier.messageAttributes]
    /\ UNCHANGED <<sqsAttrs, snsAttrs, sqsCarrier, snsCarrier, defaultSqsPropagator,
                   defaultSnsPropagator, msgAttrs, sentSqs, sentSns,
                   carriers, goroutines, listener>>

\* a map reference no live object holds once msg.MessageAttributes is assigned:
\* the message is the only holder of its old map, so that reference is free
FreshSqsRef == CHOOSE r \in SqsRefs : r # sqsCarrier.messageAttributes

\* copyAttributes(&input, &msg): msg.MessageAttributes becomes a new map and the
\* map it held before is garbage.  The receiver takes a new carrier for each
\* message, so no carrier is attached when the message arrives.
CopyAttributesCall(from) ==
    /\ Running
    /\ sqsCarrier.messageAttributes = NIL
    /\ LET new == FreshSqsRef
       IN  /\ sqsAttrs' = [r \in SqsRefs |->
                              IF r = new THEN CopyAttributes(snsAttrs[from]) ELSE EmptyMap]
           /\ sentSqs' = [r \in SqsRefs |-> IF r = new THEN sentSns[from] ELSE {}]
           /\ msgAttrs' = new
           /\ ret' = [Ret0 EXCEPT !.op = "copyAttributes", !.ref = new,
                                  !.before = snsAttrs[from]]
    /\ UNCHANGED <<snsAttrs, sqsCarrier, snsCarrier, defaultSqsPropagator,
                   defaultSnsPropagator, sentSns,
                   carriers, goroutines, listener>>

\* the maps the receiving side hands to the SQS carrier
ReceiveRefs == {NIL, msgAttrs}

InitFanout ==
    /\ sqsAttrs = [r \in SqsRefs |-> EmptyMap]
    /\ \E n \in PublishPreloads : snsAttrs = [r \in SnsRefs |-> Preload(n)]
    /\ defaultSqsPropagator = "B3Single"
    /\ defaultSnsPropagator = "B3Single"
    /\ sqsCarrier = SqsNewCarrier("B3Single")
    /\ snsCarrier = SnsNewCarrier("B3Single")
    /\ msgAttrs = 1
    /\ sentSqs = [r \in SqsRefs |-> {}]
    /\ sentSns = [r \in SnsRefs |-> {}]
    /\ ret = Ret0
    /\ carriers = Carriers0
    /\ goroutines = [g \in Goroutines |-> Idle]
    /\ listener = Listener0

\* the SNS carrier alone
NextSns ==
    \/ \E p \in Propagators : SnsSetTextMapPropagatorCall(p)
    \/ SnsNewCarrierCall
    \/ \E p \in Propagators : SnsWithPropagatorCall(p)
    \/ \E ctx \in Contexts, ref \in SnsRefs \cup {NIL} : SnsInjectCall(ctx, ref)
    \/ \E key \in GetKeys : SnsGetCall(key)
    \/ \E key \in SetKeys, value \in SetValues : SnsSetCall(key, value)
    \/ SnsKeysCall

SpecSns == InitFanout /\ [][NextSns]_vars

\* publish through the SNS carrier, fan out to SQS, receive through the SQS carrier
NextFanout ==
    \/ \E p \in Propagators : SnsWithPropagatorCall(p)
    \/ \E ctx \in Contexts, ref \in SnsRefs \cup {NIL} : SnsInjectCall(ctx, ref)
    \/ \E from \in SnsRefs : CopyAttributesCall(from)
    \/ SqsNewCarrierCall
    \/ \E ctx \in Contexts : SqsInjectCall(ctx, NIL)
    \/ \E ctx \in Contexts, ref \in ReceiveRefs : SqsExtractCall(ctx, ref)

SpecFanout == InitFanout /\ [][NextFanout]_vars

-----------------------------------------------------------------------------
(* One carrier reused over two maps, next to the application's own writes *)

\* the two maps S1 and S2 that take turns under the carrier
StoreRefs == {1, 2}

\* the attribute the application itself writes, and what it writes there
queueTraceIDAttrOutput == "traceId"

AppValues == {<< "app" >>}

ReuseSetKeys == {"key1"}

ReuseGetKeys == {"key1", queueTraceIDAttrOutput, b3ContextHeader}

\* sqsSetTraceID(&msg, attribute, traceID): the application writes its map directly
sqsSetTraceID(heap, ref, attribute, traceID) ==
    [heap EXCEPT ![ref] = MapPut(@, attribute, StringAttribute(traceID))]

sqsSetTraceIDCall(ref, attribute, traceID) ==
    /\ Running
    /\ sqsAttrs' = sqsSetTraceID(sqsAttrs, ref, attribute, traceID)
    /\ sentSqs' = [sentSqs EXCEPT ![ref] = {}]
    /\ ret' = [Ret0 EXCEPT !.op = "sqsSetTraceID", !.ref = ref, !.key = attribute,
                           !.value = traceID, !.before = sqsAttrs[ref],
                           !.attached = sqsCarrier.messageAttributes]
    /\ UNCHANGED <<snsAttrs, sqsCarrier, snsCarrier, defaultSqsPropagator,
                   defaultSnsPropagator, msgAttrs, sentSns,
                   carriers, goroutines, listener>>

\* S1 is empty or one entry short of the limit, S2 is empty
InitReuse ==
    /\ \E n \in {0, sqsMessageAttributeLimit - 1} :
          sqsAttrs = [r \in SqsRefs |-> IF r = 1 THEN Preload(n) ELSE EmptyMap]
    /\ snsAttrs = [r \in SnsRefs |-> EmptyMap]
    /\ defaultSqsPropagator = "B3Single"
    /\ defaultSnsPropagator = "B3Single"
    /\ sqsCarrier = SqsNewCarrier("B3Single")
    /\ snsCarrier = SnsNewCarrier("B3Single")
    /\ msgAttrs = NIL
    /\ sentSqs = [r \in SqsRefs |-> {}]
    /\ sentSns = [r \in SnsRefs |-> {}]
    /\ ret = Ret0
    /\ carriers = Carriers0
    /\ goroutines = [g \in Goroutines |-> Idle]
    /\ listener = Listener0

NextReuse ==
    \/ \E ctx \in Contexts, ref \in StoreRefs : SqsInjectCall(ctx, ref)
    \/ \E ctx \in Contexts, ref \in StoreRefs : SqsExtractCall(ctx, ref)
    \/ \E key \in ReuseGetKeys : SqsGetCall(key)
    \/ \E key \in ReuseSetKeys, value \in SetValues : SqsSetCall(key, value)
    \/ SqsKeysCall
    \/ \E ref \in StoreRefs, traceID \in AppValues :
          sqsSetTraceIDCall(ref, queueTraceIDAttrOutput, traceID)

SpecReuse == InitReuse /\ [][NextReuse]_vars

-----------------------------------------------------------------------------
(* The package defaults and the propagators of both carriers *)

\* the context of a started span, as the tracer of the request handler hands it on
SpanContexts == {SpanContext(1, SampledFor(1), FALSE)}

NextConfig ==
    \/ \E p \in Propagators : SqsSetTextMapPropagatorCall(p)
    \/ SqsNewCarrierCall
    \/ \E p \in Propagators : SqsWithPropagatorCall(p)
    \/ \E ctx \in SpanContexts : SqsInjectCall(ctx, msgAttrs)
    \/ \E p \in Propagators : SnsSetTextMapPropagatorCall(p)
    \/ SnsNewCarrierCall
    \/ \E p \in Propagators : SnsWithPropagatorCall(p)
    \/ \E ctx \in SpanContexts, ref \in SnsRefs : SnsInjectCall(ctx, ref)

SpecConfig == InitFanout /\ [][NextConfig]_vars

-----------------------------------------------------------------------------
(* Both carriers, attached or not, under Get, Set and Keys *)

\* the application's own attributes: none, or one string and one binary entry
AccessPreloads == {0, 2}

\* a key no map holds at first, and the key of the binary entry
AccessSetKeys == ReuseSetKeys \cup {FillerKey(2)}

AccessGetKeys == ReuseGetKeys \cup {FillerKey(1), FillerKey(2)}

InitAccess ==
    /\ \E n \in AccessPreloads :
          /\ sqsAttrs = [r \in SqsRefs |-> IF r = 1 THEN Preload(n) ELSE EmptyMap]
          /\ snsAttrs = [r \in SnsRefs |-> Preload(n)]
    /\ defaultSqsPropagator = "B3Single"
    /\ defaultSnsPropagator = "B3Single"
    /\ sqsCarrier = SqsNewCarrier("B3Single")
    /\ snsCarrier = SnsNewCarrier("B3Single")
    /\ msgAttrs = 1
    /\ sentSqs = [r \in SqsRefs |-> {}]
    /\ sentSns = [r \in SnsRefs |-> {}]
    /\ ret = Ret0
    /\ carriers = Carriers0
    /\ goroutines = [g \in Goroutines |-> Idle]
    /\ listener = Listener0

NextAccess ==
    \/ SqsNewCarrierCall
    \/ \E ctx \in SpanContexts : SqsInjectCall(ctx, msgAttrs)
    \/ \E key \in AccessGetKeys : SqsGetCall(key)
    \/ \E key \in AccessSetKeys, value \in SetValues : SqsSetCall(key, value)
    \/ SqsKeysCall
    \/ SnsNewCarrierCall
    \/ \E ctx \in SpanContexts, ref \in SnsRefs : SnsInjectCall(ctx, ref)
    \/ \E key \in AccessGetKeys : SnsGetCall(key)
    \/ \E key \in AccessSetKeys, value \in SetValues : SnsSetCall(key, value)
    \/ SnsKeysCall

SpecAccess == InitAccess /\ [][NextAccess]_vars

-----------------------------------------------------------------------------
(* Goroutines calling Inject and Extract at the same time, statement by
   statement.  No goroutine holds a lock: the carrier has none.  A step is one
   access to the carrier's messageAttributes field or to a map. *)

\* the carrier every goroutine uses when the program shares one
SharedCarrier(g) == 1

\* otelsqs.NewCarrier() in the calling goroutine: a carrier of its own ...
OwnCarrier_Singleton(g) == 1

OwnCarrier(g) == g

\* the keys the b3 Extract asks the carrier for, the single header first
ExtractKeys == << b3ContextHeader, b3TraceIDHeader, b3SpanIDHeader, b3SampledHeader >>

\* the call is entered: c.Inject(ctx, messageAttributes) or c.Extract(ctx, messageAttributes)
GoEnter(g, op, ctx, c) ==
    /\ goroutines[g].pc = "idle"
    /\ goroutines' = [goroutines EXCEPT ![g] =
           [Idle EXCEPT !.pc = "check", !.op = op, !.ctx = ctx, !.ref = g, !.c = c]]

\* a goroutine enters a call on the carrier the program shares
GoCallShared(g, op, ctx) ==
    /\ GoEnter(g, op, ctx, SharedCarrier(g))
    /\ UNCHANGED <<sqsAttrs, snsAttrs, sqsCarrier, snsCarrier, defaultSqsPropagator,
                   defaultSnsPropagator, msgAttrs, sentSqs, sentSns, ret, carriers, listener>>

\* otelsqs.NewCarrier().Inject(...) / .Extract(...): a new carrier for the call
GoCallOwn(g, op, ctx) ==
    /\ GoEnter(g, op, ctx, OwnCarrier(g))
    /\ carriers' = [carriers EXCEPT ![OwnCarrier(g)] = SqsNewCarrier(defaultSqsPropagator)]
    /\ UNCHANGED <<sqsAttrs, snsAttrs, sqsCarrier, snsCarrier, defaultSqsPropagator,
                   defaultSnsPropagator, msgAttrs, sentSqs, sentSns, ret, listener>>

\* if messageAttributes == nil / if len(messageAttributes) >= sqsMessageAttributeLimit
GoCheck(g) ==
    LET t == goroutines[g]
    IN  /\ t.pc = "check"
        /\ goroutines' = [goroutines EXCEPT ![g] =
               IF t.ref = NIL
               THEN [t EXCEPT !.pc = "done",
                              !.err = IF t.op = "Inject" THEN ErrMessageAttributesIsNil
                                      ELSE ErrNone,
                              !.out = t.ctx]
               ELSE IF t.op = "Inject" /\ SqsOverLimit(sqsAttrs[t.ref])
               THEN [t EXCEPT !.pc = "done", !.err = ErrMaxAttrLimit]
               ELSE [t EXCEPT !.pc = "attach"]]
        /\ UNCHANGED <<sqsAttrs, snsAttrs, sqsCarrier, snsCarrier, defaultSqsPropagator,
                       defaultSnsPropagator, msgAttrs, sentSqs, sentSns, ret, carriers, listener>>

\* c.attach(messageAttributes), then the propagator works out what it will Set
\* or Get: it reads ctx and c.propagator, which no call in flight writes
GoAttach(g) ==
    LET t == goroutines[g]
        a == SqsAttach(carriers[t.c], t.ref)
    IN  /\ t.pc = "attach"
        /\ ~a.panicked
        /\ carriers' = [carriers EXCEPT ![t.c] = a.c]
        /\ goroutines' = [goroutines EXCEPT ![g] =
               IF t.op = "Inject"
               THEN [t EXCEPT !.pc = "set", !.calls = PropagatorInject(a.c.propagator, t.ctx)]
               ELSE [t EXCEPT !.pc = "get", !.keys = ExtractKeys]]
        /\ UNCHANGED <<sqsAttrs, snsAttrs, sqsCarrier, snsCarrier, defaultSqsPropagator,
                       defaultSnsPropagator, msgAttrs, sentSqs, sentSns, ret, listener>>

\* one c.Set(key, value) of propagator.Inject: it writes the map the carrier's
\* field holds now; after the last one Inject returns nil
GoSet(g) ==
    LET t == goroutines[g]
        c == carriers[t.c]
    IN  /\ t.pc = "set"
        /\ IF t.calls = << >>
           THEN /\ goroutines' = [goroutines EXCEPT ![g] =
                                     [t EXCEPT !.pc = "done", !.err = ErrNone]]
                /\ UNCHANGED sqsAttrs
           ELSE /\ sqsAttrs' = SqsSet(c, sqsAttrs, Head(t.calls)[1], Head(t.calls)[2])
                /\ goroutines' = [goroutines EXCEPT ![g] =
                                     [t EXCEPT !.calls = Tail(t.calls),
                                               !.wrote = @ \cup {c.messageAttributes}]]
        /\ UNCHANGED <<snsAttrs, sqsCarrier, snsCarrier, defaultSqsPropagator,
                       defaultSnsPropagator, msgAttrs, sentSqs, sentSns, ret, carriers, listener>>

\* the keys Extract still asks for after Get(key) returned h: none once the
\* single header gave a valid span context
KeysAfter(keys, h) ==
    IF Head(keys) = b3ContextHeader /\ h # EmptyString
       /\ B3ExtractSingle(h).ok /\ IsValid(B3ExtractSingle(h).sc)
    THEN << >>
    ELSE Tail(keys)

\* one c.Get(key) of propagator.Extract: it reads the map the carrier's field
\* holds now; after the last one Extract returns the context
GoGet(g) ==
    LET t == goroutines[g]
        c == carriers[t.c]
    IN  /\ t.pc = "get"
        /\ goroutines' = [goroutines EXCEPT ![g] =
               IF t.keys = << >>
               THEN [t EXCEPT !.pc = "done", !.err = ErrNone,
                              !.out = PropagatorExtract(c.propagator, t.ctx, t.got)]
               ELSE LET h == SqsGet(c, sqsAttrs, Head(t.keys))
                    IN  [t EXCEPT !.keys = KeysAfter(t.keys, h),
                                  !.got = [@ EXCEPT ![Head(t.keys)] = h],
                                  !.readFrom = @ \cup {c.messageAttributes}]]
        /\ UNCHANGED <<sqsAttrs, snsAttrs, sqsCarrier, snsCarrier, defaultSqsPropagator,
                       defaultSnsPropagator, msgAttrs, sentSqs, sentSns, ret, carriers, listener>>

\* the caller has the result and the goroutine is free for its next message
GoReturn(g) ==
    /\ goroutines[g].pc = "done"
    /\ goroutines' = [goroutines EXCEPT ![g] = Idle]
    /\ UNCHANGED <<sqsAttrs, snsAttrs, sqsCarrier, snsCarrier, defaultSqsPropagator,
                   defaultSnsPropagator, msgAttrs, sentSqs, sentSns, ret, carriers, listener>>

\* the maps of the two messages start empty
InitConcurrent ==
    /\ sqsAttrs = [r \in SqsRefs |-> EmptyMap]
    /\ snsAttrs = [r \in SnsRefs |-> EmptyMap]
    /\ defaultSqsPropagator = "B3Single"
    /\ defaultSnsPropagator = "B3Single"
    /\ sqsCarrier = SqsNewCarrier("B3Single")
    /\ snsCarrier = SnsNewCarrier("B3Single")
    /\ msgAttrs = NIL
    /\ sentSqs = [r \in SqsRefs |-> {}]
    /\ sentSns = [r \in SnsRefs |-> {}]
    /\ ret = Ret0
    /\ carriers = Carriers0
    /\ goroutines = [g \in Goroutines |-> Idle]
    /\ listener = Listener0

GoStep(g) ==
    \/ GoCheck(g)
    \/ GoAttach(g)
    \/ GoSet(g)
    \/ GoGet(g)
    \/ GoReturn(g)

\* two goroutines on one carrier without synchronization
NextShared ==
    \E g \in Goroutines :
       \/ \E ctx \in Contexts : GoCallShared(g, "Inject", ctx)
       \/ GoCallShared(g, "Extract", NoSpan)
       \/ GoStep(g)

SpecShared == InitConcurrent /\ [][NextShared]_vars

\* one carrier per operation
NextPerOp ==
    \E g \in Goroutines :
       \/ \E ctx \in Contexts : GoCallOwn(g, "Inject", ctx)
       \/ GoCallOwn(g, "Extract", NoSpan)
       \/ GoStep(g)

SpecPerOp == InitConcurrent /\ [][NextPerOp]_vars

-----------------------------------------------------------------------------
(* The otelsns revision whose Inject attaches without a nil test
   (otelsns/otelsns.go), with its deprecated entry points *)

\* c.Inject(ctx, messageAttributes): attach, then the propagator
LegacySnsInject(c, heap, ctx, ref) ==
    LET a == SnsAttach(c, ref)
        calls == PropagatorInject(a.c.propagator, ctx)
    IN  IF a.panicked
        THEN [c |-> c, heap |-> heap, propCalls |-> 0, setCalls |-> 0, panicked |-> TRUE]
        ELSE [c |-> a.c, heap |-> SnsApplySets(a.c, heap, calls),
              propCalls |-> 1, setCalls |-> Len(calls), panicked |-> FALSE]

\* NewCarrierAttributes(input): NewCarrier(), then attach(input.MessageAttributes)
NewCarrierAttributes(default, ref) == SnsAttach(SnsNewCarrier(default), ref)

\* InjectIntoSnsMessageAttributes(ctx, input): NewCarrier().Inject(ctx, input.MessageAttributes)
InjectIntoSnsMessageAttributes(default, heap, ctx, ref) ==
    LegacySnsInject(SnsNewCarrier(default), heap, ctx, ref)

\* input.MessageAttributes of the publish input: not made (nil), or a map
PublishRefs == SnsRefs \cup {NIL}

LegacySnsInjectCall(ctx, ref) ==
    /\ Running
    /\ LET r == LegacySnsInject(snsCarrier, snsAttrs, ctx, ref)
       IN  /\ snsCarrier' = r.c
           /\ snsAttrs' = r.heap
           /\ sentSns' = IF ref = NIL \/ r.setCalls = 0 THEN sentSns
                         ELSE [sentSns EXCEPT ![ref] =
                                  IF (DOMAIN snsAttrs[ref]) \cap TraceKeys = {}
                                  THEN {ctx} ELSE {}]
           /\ ret' = [Ret0 EXCEPT !.op = "Inject", !.carrier = "sns", !.ref = ref,
                                  !.inCtx = ctx, !.err = ErrNone,
                                  !.propCalls = r.propCalls, !.setCalls = r.setCalls,
                                  !.panicked = r.panicked,
                                  !.before = MapAt(snsAttrs, ref),
                                  !.attached = snsCarrier.messageAttributes]
    /\ UNCHANGED <<sqsAttrs, sqsCarrier, defaultSqsPropagator, defaultSnsPropagator,
                   msgAttrs, sentSqs, carriers, goroutines, listener>>

NewCarrierAttributesCall(ref) ==
    /\ Running
    /\ LET a == NewCarrierAttributes(defaultSnsPropagator, ref)
       IN  /\ snsCarrier' = IF a.panicked THEN snsCarrier ELSE a.c
           /\ ret' = [Ret0 EXCEPT !.op = "NewCarrierAttributes", !.carrier = "sns",
                                  !.ref = ref, !.panicked = a.panicked,
                                  !.before = MapAt(snsAttrs, ref),
                                  !.attached = snsCarrier.messageAttributes]
    /\ UNCHANGED <<sqsAttrs, snsAttrs, sqsCarrier, defaultSqsPropagator,
                   defaultSnsPropagator, msgAttrs, sentSqs, sentSns, carriers, goroutines, listener>>

\* the carrier it makes is dropped when it returns
InjectIntoSnsMessageAttributesCall(ctx, ref) ==
    /\ Running
    /\ LET r == InjectIntoSnsMessageAttributes(defaultSnsPropagator, snsAttrs, ctx, ref)
       IN  /\ snsAttrs' = r.heap
           /\ sentSns' = IF ref = NIL \/ r.setCalls = 0 THEN sentSns
                         ELSE [sentSns EXCEPT ![ref] =
                                  IF (DOMAIN snsAttrs[ref]) \cap TraceKeys = {}
                                  THEN {ctx} ELSE {}]
           /\ ret' = [Ret0 EXCEPT !.op = "InjectIntoSnsMessageAttributes",
                                  !.carrier = "sns", !.ref = ref,
                                  !.inCtx = ctx, !.err = ErrNone,
                                  !.propCalls = r.propCalls, !.setCalls = r.setCalls,
                                  !.panicked = r.panicked,
                                  !.before = MapAt(snsAttrs, ref),
                                  !.attached = snsCarrier.messageAttributes]
    /\ UNCHANGED <<sqsAttrs, sqsCarrier, snsCarrier, defaultSqsPropagator,
                   defaultSnsPropagator, msgAttrs, sentSqs, carriers, goroutines, listener>>

NextLegacySns ==
    \/ \E p \in Propagators : SnsSetTextMapPropagatorCall(p)
    \/ SnsNewCarrierCall
    \/ \E p \in Propagators : SnsWithPropagatorCall(p)
    \/ \E ctx \in Contexts, ref \in PublishRefs : LegacySnsInjectCall(ctx, ref)
    \/ \E ref \in PublishRefs : NewCarrierAttributesCall(ref)
    \/ \E ctx \in Contexts, ref \in PublishRefs : InjectIntoSnsMessageAttributesCall(ctx, ref)

SpecLegacySns == InitFanout /\ [][NextLegacySns]_vars

\* ---------------------------------------------------------------------------
\* SqsListener: the receive loop of the backend, with one carrier for its life
\* ---------------------------------------------------------------------------

\* the batches ReceiveMessage can return from a queue: any messages of the
\* queue, each once, in any order; none when the long poll times out
Batches(queue) ==
    {b \in UNION {[1 .. n -> queue] : n \in 0 .. Cardinality(queue)} :
        \A j, k \in DOMAIN b : j # k => b[j] # b[k]}

\* the attribute maps a received message can carry: none, or some B3 header
MessageMaps ==
    {EmptyMap} \cup
    {MapPut(EmptyMap, b3ContextHeader, StringAttribute(B3SingleInject(SpanContext(t, TRUE, FALSE))[1][2]))
        : t \in 1 .. MaxTrace}

\* the loop exits on a receive error instead of sleeping
AfterReceive_Exit(errRecv, count) ==
    IF errRecv THEN "exit"
    ELSE IF count = 0 THEN "cooldown"
    ELSE "handle"

\* where the loop goes after ReceiveMessage: it sleeps and polls again on an
\* error or an empty batch, it handles the first message otherwise
AfterReceive(errRecv, count) ==
    IF errRecv THEN "cooldown"
    ELSE IF count = 0 THEN "cooldown"
    ELSE "handle"

\* a failed DeleteMessage is tried again
AfterDelete_Retry(errDelete) == IF errDelete THEN "delete" ELSE "next"

\* where the loop goes after DeleteMessage: a failure is logged and slept on,
\* then the loop moves on like after a success
AfterDelete(errDelete) == IF errDelete THEN "deleteCooldown" ELSE "next"

\* the range loop: the next message of the batch, or the next ReceiveMessage
NextMessage(l) ==
    IF l.i < Len(l.batch) THEN [l EXCEPT !.pc = "handle", !.i = l.i + 1]
    ELSE [l EXCEPT !.pc = "receive"]

\* a nil map leaves the carrier on the map of the message before
ListenerExtract_StaleOnNil(c, heap, ref) ==
    SqsExtract(c, heap, NoSpan, IF ref = NIL THEN c.messageAttributes ELSE ref)

\* Extract of the carrier the listener uses: it starts from the background
\* context
ListenerExtract(c, heap, ref) == SqsExtract(c, heap, NoSpan, ref)

InitListener ==
    /\ \E nil \in SUBSET Msgs : \E maps \in [Msgs -> MessageMaps] :
          /\ \A m \in nil : maps[m] = EmptyMap
          /\ sqsAttrs = [r \in SqsRefs |-> IF r \in Msgs THEN maps[r] ELSE EmptyMap]
          /\ listener = [Listener0 EXCEPT !.queue = Msgs,
                            !.attrs = [m \in Msgs |-> IF m \in nil THEN NIL ELSE m]]
    /\ snsAttrs = [r \in SnsRefs |-> EmptyMap]
    /\ defaultSqsPropagator = "B3Single"
    /\ defaultSnsPropagator = "B3Single"
    /\ sqsCarrier = SqsNewCarrier("B3Single")
    /\ snsCarrier = SnsNewCarrier("B3Single")
    /\ msgAttrs = 1
    /\ sentSqs = [r \in SqsRefs |-> {}]
    /\ sentSns = [r \in SnsRefs |-> {}]
    /\ ret = Ret0
    /\ carriers = Carriers0
    /\ goroutines = [g \in Goroutines |-> Idle]

\* q.SqsClient.ReceiveMessage returns: an error, or a batch of the queue
ListenerReceive(errRecv, batch) ==
    /\ Running
    /\ listener.pc = "receive"
    /\ listener' = [listener EXCEPT
                       !.pc = AfterReceive(errRecv, Len(batch)),
                       !.batch = IF errRecv THEN << >> ELSE batch,
                       !.i = IF errRecv \/ Len(batch) = 0 THEN 0 ELSE 1,
                       !.handled = << >>,
                       !.deletes = << >>]
    /\ UNCHANGED <<sqsAttrs, snsAttrs, sqsCarrier, snsCarrier, defaultSqsPropagator,
                   defaultSnsPropagator, msgAttrs, sentSqs, sentSns, ret,
                   carriers, goroutines>>

\* time.Sleep(cooldown) returns and the loop continues
ListenerCooldown ==
    /\ Running
    /\ listener.pc = "cooldown"
    /\ listener' = [listener EXCEPT !.pc = "receive"]
    /\ UNCHANGED <<sqsAttrs, snsAttrs, sqsCarrier, snsCarrier, defaultSqsPropagator,
                   defaultSnsPropagator, msgAttrs, sentSqs, sentSns, ret,
                   carriers, goroutines>>

\* sqsHandle on message i of the batch: Extract through the listener's carrier,
\* then SendMessage and the HTTP call, whose failures are logged; sqsHandle
\* returns nothing, and DeleteMessage is next whatever happened
ListenerHandle(sendOk, httpOk) ==
    /\ Running
    /\ listener.pc = "handle"
    /\ LET m   == listener.batch[listener.i]
           ref == listener.attrs[m]
           r   == ListenerExtract(sqsCarrier, sqsAttrs, ref)
       IN  /\ sqsCarrier' = r.c
           /\ ret' = [Ret0 EXCEPT !.op = "Extract", !.carrier = "sqs", !.ref = ref,
                                  !.inCtx = NoSpan, !.ctx = r.ctx,
                                  !.propCalls = r.propCalls, !.panicked = r.panicked,
                                  !.before = MapAt(sqsAttrs, ref),
                                  !.attached = sqsCarrier.messageAttributes]
           /\ listener' = [listener EXCEPT
                              !.pc = "delete",
                              !.handled = Append(@, [m |-> m, ctx |-> r.ctx,
                                                     sendOk |-> sendOk,
                                                     httpOk |-> httpOk])]
    /\ UNCHANGED <<sqsAttrs, snsAttrs, snsCarrier, defaultSqsPropagator,
                   defaultSnsPropagator, msgAttrs, sentSqs, sentSns,
                   carriers, goroutines>>

\* q.SqsClient.DeleteMessage on message i returns: nil and the message is gone
\* from the queue, or an error and it stays
ListenerDelete(errDelete) ==
    /\ Running
    /\ listener.pc = "delete"
    /\ LET m  == listener.batch[listener.i]
           to == AfterDelete(errDelete)
           l  == [listener EXCEPT
                     !.deletes = Append(@, [m |-> m, ok |-> ~errDelete,
                                            after |-> Len(listener.handled)]),
                     !.queue = IF errDelete THEN @ ELSE @ \ {m}]
       IN  listener' = IF to = "next" THEN NextMessage(l) ELSE [l EXCEPT !.pc = to]
    /\ UNCHANGED <<sqsAttrs, snsAttrs, sqsCarrier, snsCarrier, defaultSqsPropagator,
                   defaultSnsPropagator, msgAttrs, sentSqs, sentSns, ret,
                   carriers, goroutines>>

\* the sleep after a failed delete returns and the range loop moves on
ListenerDeleteCooldown ==
    /\ Running
    /\ listener.pc = "deleteCooldown"
    /\ listener' = NextMessage(listener)
    /\ UNCHANGED <<sqsAttrs, snsAttrs, sqsCarrier, snsCarrier, defaultSqsPropagator,
                   defaultSnsPropagator, msgAttrs, sentSqs, sentSns, ret,
                   carriers, goroutines>>

NextListener ==
    \/ \E errRecv \in BOOLEAN : \E batch \in Batches(listener.queue) :
          ListenerReceive(errRecv, batch)
    \/ ListenerCooldown
    \/ \E sendOk, httpOk \in BOOLEAN : ListenerHandle(sendOk, httpOk)
    \/ \E errDelete \in BOOLEAN : ListenerDelete(errDelete)
    \/ ListenerDeleteCooldown

SpecListener == InitListener /\ [][NextListener]_vars

\* the listener's goroutine keeps being scheduled, and every call it waits on
\* (ReceiveMessage with its 20 s long poll, time.Sleep, SendMessage, the HTTP
\* call, DeleteMessage) returns
SpecListenerFair == InitListener /\ [][NextListener]_vars /\ WF_vars(NextListener)

\* ---------------------------------------------------------------------------
\* The carrier bound to a whole SQS message (package otelsqs, first revision):
\* it reads and writes sqsMessage.MessageAttributes, here msgAttrs
\* ---------------------------------------------------------------------------

MessageValues == {<< "value1" >>, << "value2" >>}

MessageSetKeys == {"key1"}

MessageGetKeys == {"key1", b3ContextHeader}

\* Get: a lookup in a nil map finds nothing
MessageGet(msg, heap, key) ==
    IF msg = NIL THEN EmptyString
    ELSE IF key \notin DOMAIN heap[msg] THEN EmptyString
    ELSE IF heap[msg][key].StringValue = NilPtr THEN EmptyString
    ELSE heap[msg][key].StringValue[1]

\* Set drops the entry when the message has no map
MessageSet_DropOnNil(msg, heap, key, value) ==
    IF msg = NIL THEN [msg |-> msg, heap |-> heap]
    ELSE [msg |-> msg, heap |-> [heap EXCEPT ![msg] = MapPut(@, key, StringAttribute(value))]]

\* Set: makes the map on the message when it is nil, then stores the entry
MessageSet(msg, heap, key, value) ==
    LET ref == IF msg = NIL THEN FreshSqsRef ELSE msg
        h   == IF msg = NIL THEN [heap EXCEPT ![ref] = EmptyMap] ELSE heap
    IN  [msg |-> ref, heap |-> [h EXCEPT ![ref] = MapPut(@, key, StringAttribute(value))]]

\* Keys: nil for a nil map
MessageKeys(msg, heap) == IF msg = NIL THEN << >> ELSE SetToSeq(DOMAIN heap[msg])

\* the propagator's Set calls, in order, on the message
RECURSIVE MessageApplySets(_, _, _)
MessageApplySets(msg, heap, calls) ==
    IF calls = << >> THEN [msg |-> msg, heap |-> heap]
    ELSE LET r == MessageSet(msg, heap, Head(calls)[1], Head(calls)[2])
         IN  MessageApplySets(r.msg, r.heap, Tail(calls))

\* InjectIntoSqsMessageAttributes: the package's propagator injects into a new
\* carrier on the message
InjectIntoSqsMessageAttributes(default, msg, heap, ctx) ==
    MessageApplySets(msg, heap, PropagatorInject(default, ctx))

\* ContextFromSqsMessageAttributes: the package's propagator extracts from a new
\* carrier on the message, starting from the background context
ContextFromSqsMessageAttributes(default, msg, heap) ==
    PropagatorExtract(default, NoSpan, [k \in TraceKeys |-> MessageGet(msg, heap, k)])

InitMessage ==
    /\ sqsAttrs = [r \in SqsRefs |-> EmptyMap]
    /\ snsAttrs = [r \in SnsRefs |-> EmptyMap]
    /\ defaultSqsPropagator = "B3Single"
    /\ defaultSnsPropagator = "B3Single"
    /\ sqsCarrier = SqsNewCarrier("B3Single")
    /\ snsCarrier = SnsNewCarrier("B3Single")
    /\ msgAttrs = NIL
    /\ sentSqs = [r \in SqsRefs |-> {}]
    /\ sentSns = [r \in SnsRefs |-> {}]
    /\ ret = Ret0
    /\ carriers = Carriers0
    /\ goroutines = [g \in Goroutines |-> Idle]
    /\ listener = Listener0

\* sqsMessage := types.Message{}: a message without attributes
NewMessageCall ==
    /\ Running
    /\ msgAttrs' = NIL
    /\ ret' = [Ret0 EXCEPT !.op = "NewMessage", !.carrier = "msg", !.attached = msgAttrs]
    /\ UNCHANGED <<sqsAttrs, snsAttrs, sqsCarrier, snsCarrier, defaultSqsPropagator,
                   defaultSnsPropagator, sentSqs, sentSns,
                   carriers, goroutines, listener>>

MessageGetCall(key) ==
    /\ Running
    /\ ret' = [Ret0 EXCEPT !.op = "Get", !.carrier = "msg", !.key = key,
                           !.ref = msgAttrs,
                           !.out = MessageGet(msgAttrs, sqsAttrs, key),
                           !.before = MapAt(sqsAttrs, msgAttrs),
                           !.attached = msgAttrs,
                           !.twice = SameSetBefore("msg", key),
                           !.value = IF SameSetBefore("msg", key) THEN ret.value
                                     ELSE EmptyString]
    /\ UNCHANGED <<sqsAttrs, snsAttrs, sqsCarrier, snsCarrier, defaultSqsPropagator,
                   defaultSnsPropagator, msgAttrs, sentSqs, sentSns,
                   carriers, goroutines, listener>>

MessageSetCall(key, value) ==
    /\ Running
    /\ LET r == MessageSet(msgAttrs, sqsAttrs, key, value)
       IN  /\ msgAttrs' = r.msg
           /\ sqsAttrs' = r.heap
    /\ ret' = [Ret0 EXCEPT !.op = "Set", !.carrier = "msg", !.key = key, !.value = value,
                           !.ref = msgAttrs,
                           !.before = MapAt(sqsAttrs, msgAttrs),
                           !.attached = msgAttrs]
    /\ UNCHANGED <<snsAttrs, sqsCarrier, snsCarrier, defaultSqsPropagator,
                   defaultSnsPropagator, sentSqs, sentSns,
                   carriers, goroutines, listener>>

MessageKeysCall ==
    /\ Running
    /\ ret' = [Ret0 EXCEPT !.op = "Keys", !.carrier = "msg",
                           !.ref = msgAttrs,
                           !.keys = MessageKeys(msgAttrs, sqsAttrs),
                           !.before = MapAt(sqsAttrs, msgAttrs),
                           !.attached = msgAttrs]
    /\ UNCHANGED <<sqsAttrs, snsAttrs, sqsCarrier, snsCarrier, defaultSqsPropagator,
                   defaultSnsPropagator, msgAttrs, sentSqs, sentSns,
                   carriers, goroutines, listener>>

InjectIntoSqsMessageAttributesCall(ctx) ==
    /\ Running
    /\ LET r == InjectIntoSqsMessageAttributes(defaultSqsPropagator, msgAttrs, sqsAttrs, ctx)
       IN  /\ msgAttrs' = r.msg
           /\ sqsAttrs' = r.heap
    /\ ret' = [Ret0 EXCEPT !.op = "Inject", !.carrier = "msg", !.inCtx = ctx,
                           !.ref = msgAttrs,
                           !.propagator = defaultSqsPropagator,
                           !.before = MapAt(sqsAttrs, msgAttrs),
                           !.attached = msgAttrs]
    /\ UNCHANGED <<snsAttrs, sqsCarrier, snsCarrier, defaultSqsPropagator,
                   defaultSnsPropagator, sentSqs, sentSns,
                   carriers, goroutines, listener>>

ContextFromSqsMessageAttributesCall ==
    /\ Running
    /\ ret' = [Ret0 EXCEPT !.op = "Extract", !.carrier = "msg", !.inCtx = NoSpan,
                           !.ref = msgAttrs,
                           !.ctx = ContextFromSqsMessageAttributes(defaultSqsPropagator,
                                                                   msgAttrs, sqsAttrs),
                           !.propagator = defaultSqsPropagator,
                           !.before = MapAt(sqsAttrs, msgAttrs),
                           !.attached = msgAttrs]
    /\ UNCHANGED <<sqsAttrs, snsAttrs, sqsCarrier, snsCarrier, defaultSqsPropagator,
                   defaultSnsPropagator, msgAttrs, sentSqs, sentSns,
                   carriers, goroutines, listener>>

NextMessageCarrier ==
    \/ NewMessageCall
    \/ \E p \in Propagators : SqsSetTextMapPropagatorCall(p)
    \/ \E key \in MessageGetKeys : MessageGetCall(key)
    \/ \E key \in MessageSetKeys, value \in MessageValues : MessageSetCall(key, value)
    \/ MessageKeysCall
    \/ \E ctx \in Contexts : InjectIntoSqsMessageAttributesCall(ctx)
    \/ ContextFromSqsMessageAttributesCall

SpecMessage == InitMessage /\ [][NextMessageCarrier]_vars

\* ---------------------------------------------------------------------------
\* Both carriers under every call of their API, nil stores included
\* ---------------------------------------------------------------------------

\* the stores handed to Inject and Extract: nil, or the one map of each kind
NilOrStore == {NIL, 1}

NextAnyCall ==
    \/ SqsNewCarrierCall
    \/ \E p \in Propagators : SqsWithPropagatorCall(p)
    \/ \E ctx \in SpanContexts, ref \in NilOrStore : SqsInjectCall(ctx, ref)
    \/ \E ctx \in SpanContexts, ref \in NilOrStore : SqsExtractCall(ctx, ref)
    \/ \E key \in ReuseSetKeys : SqsGetCall(key)
    \/ \E key \in ReuseSetKeys, value \in AppValues : SqsSetCall(key, value)
    \/ SqsKeysCall
    \/ SnsNewCarrierCall
    \/ \E p \in Propagators : SnsWithPropagatorCall(p)
    \/ \E ctx \in SpanContexts, ref \in NilOrStore : SnsInjectCall(ctx, ref)
    \/ \E key \in ReuseSetKeys : SnsGetCall(key)
    \/ \E key \in ReuseSetKeys, value \in AppValues : SnsSetCall(key, value)
    \/ SnsKeysCall

SpecAnyCall == InitFanout /\ [][NextAnyCall]_vars

\* ---------------------------------------------------------------------------
\* One SQS carrier between two maps and nil, one map at the limit
\* ---------------------------------------------------------------------------

NextReject ==
    \/ \E ctx \in SpanContexts, ref \in StoreRefs \cup {NIL} : SqsInjectCall(ctx, ref)
    \/ \E ctx \in SpanContexts, ref \in StoreRefs \cup {NIL} : SqsExtractCall(ctx, ref)
    \/ \E key \in ReuseSetKeys : SqsGetCall(key)
    \/ \E key \in ReuseSetKeys, value \in AppValues : SqsSetCall(key, value)
    \/ SqsKeysCall

SpecReject == InitReuse /\ [][NextReject]_vars

-----------------------------------------------------------------------------
(* Properties *)

Size(m) == Cardinality(DOMAIN m)

SqsCall(op) == ret.op = op /\ ret.carrier = "sqs"

\* the entries of map m other than the one at key
Others(m, key) == [k \in (DOMAIN m) \ {key} |-> m[k]]

\* C1: a trace context (a context that carries a trace identifier) injected by
\* the SQS carrier into an empty map is extracted from that map with the same
\* trace id, whatever context Extract is given.  A context without a span
\* carries no identifier: Extract then returns the trace id of its own input.
C1_RoundTrip ==
    (SqsCall("Extract") /\ ret.ref # NIL)
        => \A c \in sentSqs[ret.ref] :
              ret.ctx.traceID = (IF IsValid(c) THEN c.traceID ELSE ret.inCtx.traceID)

\* a valid context was injected into the empty map and extracted into a
\* context of another trace
C1_Witness ==
    /\ SqsCall("Extract") /\ ret.ref # NIL
    /\ \E c \in sentSqs[ret.ref] :
          /\ IsValid(c) /\ IsValid(ret.inCtx)
          /\ c.traceID # ret.inCtx.traceID
          /\ ret.ctx.traceID = c.traceID
    /\ DOMAIN sqsAttrs[ret.ref] = {b3ContextHeader}

\* C2: Inject on a map that holds 10 or more entries returns ErrMaxAttrLimit,
\* calls neither the propagator nor Set, and leaves the map as it was.
C2_LimitNoWrite ==
    (SqsCall("Inject") /\ ret.ref # NIL /\ Size(ret.before) >= 10)
        => /\ ret.err = ErrMaxAttrLimit
           /\ ret.propCalls = 0
           /\ ret.setCalls = 0
           /\ sqsAttrs[ret.ref] = ret.before

\* Inject was refused on a map of exactly 10 entries
C2_Witness ==
    /\ SqsCall("Inject") /\ ret.ref # NIL
    /\ Size(ret.before) = 10
    /\ ret.err = ErrMaxAttrLimit

\* C3: Inject with the nil map returns ErrMessageAttributesIsNil, does not panic
\* and writes nothing, in the SQS carrier and in the SNS carrier, attached or not.
C3_InjectNil ==
    [][(ret'.op = "Inject" /\ ret'.ref = NIL)
          => /\ ret'.err = ErrMessageAttributesIsNil
             /\ ~ret'.panicked
             /\ ret'.propCalls = 0
             /\ ret'.setCalls = 0
             /\ UNCHANGED <<sqsAttrs, snsAttrs>>]_vars

\* the SNS carrier, attached to a map, was given the nil map, while the SQS
\* carrier is attached too
C3_Witness ==
    /\ ret.op = "Inject" /\ ret.carrier = "sns" /\ ret.ref = NIL
    /\ ret.attached # NIL
    /\ sqsCarrier.messageAttributes # NIL
    /\ ret.err = ErrMessageAttributesIsNil

\* C4: Extract with the nil map returns the context it was given, does not
\* panic and does not call the propagator.
C4_ExtractNil ==
    (SqsCall("Extract") /\ ret.ref = NIL)
        => /\ ret.ctx = ret.inCtx
           /\ ~ret.panicked
           /\ ret.propCalls = 0

\* Extract was given the nil map and a valid context while the carrier was
\* attached to a map that holds another trace
C4_Witness ==
    /\ SqsCall("Extract") /\ ret.ref = NIL
    /\ ret.attached # NIL
    /\ IsValid(ret.inCtx)
    /\ \E c \in sentSqs[ret.attached] : IsValid(c) /\ c.traceID # ret.inCtx.traceID

\* C5: right after Set(k, v) on an attached map, Get(k) = v and k is in Keys().
C5_SetGet ==
    (SqsCall("Set") /\ ret.attached # NIL)
        => /\ SqsGet(sqsCarrier, sqsAttrs, ret.key) = ret.value
           /\ ret.key \in Range(SqsKeys(sqsCarrier, sqsAttrs))

\* Set wrote a key the map did not hold
C5_Witness ==
    /\ SqsCall("Set") /\ ret.attached # NIL
    /\ ret.key \notin DOMAIN ret.before
    /\ ret.before # EmptyMap

\* C6: after Set(k, v1); Set(k, v2), Get(k) = v2 and the number of keys is the
\* number before the first Set, plus 1 when k was new then, plus 0 otherwise.
C6_Overwrite ==
    (SqsCall("Set") /\ ret.attached # NIL /\ ret.twice)
        => /\ SqsGet(sqsCarrier, sqsAttrs, ret.key) = ret.value
           /\ Len(SqsKeys(sqsCarrier, sqsAttrs)) =
                 Size(ret.before0) + (IF ret.key \in DOMAIN ret.before0 THEN 0 ELSE 1)

\* two Sets in a row on a key that was new, with different values
C6_Witness ==
    /\ SqsCall("Set") /\ ret.attached # NIL /\ ret.twice
    /\ ret.key \notin DOMAIN ret.before0
    /\ ret.before[ret.key].StringValue # Ptr(ret.value)

\* C7: Get of a key the attached map does not hold returns the empty string;
\* on an empty map Keys() is empty.
C7_GetAbsent ==
    /\ (SqsCall("Get") /\ ret.attached # NIL
           /\ ret.key \notin DOMAIN sqsAttrs[ret.attached])
          => ret.out = EmptyString
    /\ (SqsCall("Keys") /\ ret.attached # NIL /\ sqsAttrs[ret.attached] = EmptyMap)
          => ret.keys = << >>

\* Get was asked for a key that a map with other entries does not hold
C7_Witness ==
    /\ SqsCall("Get") /\ ret.attached # NIL
    /\ ret.key \notin DOMAIN sqsAttrs[ret.attached]
    /\ sqsAttrs[ret.attached] # EmptyMap
    /\ ret.out = EmptyString

\* C8: Set(k, v) changes the entry at k of the attached map and nothing else:
\* every other entry of every map is as before, none appears and none
\* disappears, and Get of every other key returns what it returned before.
C8_SetFrame ==
    [][(ret'.op = "Set" /\ ret'.carrier = "sqs")
          => /\ \A r \in SqsRefs :
                   IF r = sqsCarrier.messageAttributes
                   THEN /\ Others(sqsAttrs'[r], ret'.key) = Others(sqsAttrs[r], ret'.key)
                        /\ DOMAIN sqsAttrs'[r] = (DOMAIN sqsAttrs[r]) \cup {ret'.key}
                   ELSE sqsAttrs'[r] = sqsAttrs[r]
             /\ \A j \in (GetKeys \cup TraceKeys) \ {ret'.key} :
                   SqsGet(sqsCarrier', sqsAttrs', j) = SqsGet(sqsCarrier, sqsAttrs, j)]_vars

\* Set wrote one key of a map that holds the value Set gave another key
C8_Witness ==
    /\ SqsCall("Set") /\ ret.attached # NIL
    /\ \E j \in SetKeys \ {ret.key} :
          /\ j \in DOMAIN ret.before
          /\ SqsGet(sqsCarrier, sqsAttrs, j) \in SetValues
    /\ ret.before # sqsAttrs[ret.attached]

\* C9: a trace context injected by the SNS carrier into publish attributes that
\* are then copied field by field into an SQS attribute map is extracted by the
\* SQS carrier with the same trace id.
C9_FanoutRoundTrip ==
    (SqsCall("Extract") /\ ret.ref # NIL /\ ret.ref = msgAttrs)
        => \A c \in sentSqs[msgAttrs] :
              IsValid(c) => (ret.ctx.traceID = c.traceID /\ ret.ctx.remote)

\* the copy of a publish input that carries a valid context was extracted
\* into a context of another trace
C9_Witness ==
    /\ SqsCall("Extract") /\ ret.ref = msgAttrs /\ msgAttrs # NIL
    /\ \E c \in sentSqs[msgAttrs] :
          /\ IsValid(c)
          /\ c.traceID # ret.inCtx.traceID
          /\ ret.ctx.traceID = c.traceID
    /\ sqsAttrs[msgAttrs] = CopyAttributes(snsAttrs[1])
    /\ sentSns[1] # {}

\* C10 as stated: a map of at most 10 entries holds at most 10 entries when
\* Inject returns, for every propagator.
C10_Original ==
    (SqsCall("Inject") /\ ret.ref # NIL /\ Size(ret.before) <= 10)
        => Size(sqsAttrs[ret.ref]) <= 10

\* C10 amended: a map of at most 10 entries holds at most 10 entries when Inject
\* returns if the propagator writes at most one key; a propagator that writes
\* w keys leaves at most 9 + w.
C10_Headroom ==
    (SqsCall("Inject") /\ ret.ref # NIL /\ Size(ret.before) <= 10)
        => /\ ret.setCalls <= 1 => Size(sqsAttrs[ret.ref]) <= 10
           /\ ret.setCalls >= 1 =>
                 Size(sqsAttrs[ret.ref]) <= sqsMessageAttributeLimit - 1 + ret.setCalls

\* the single-header propagator filled the tenth entry
C10_Witness ==
    /\ SqsCall("Inject") /\ ret.ref # NIL
    /\ Size(ret.before) = 9
    /\ ret.setCalls = 1
    /\ Size(sqsAttrs[ret.ref]) = 10

SnsCall(op) == ret.op = op /\ ret.carrier = "sns"

\* C11: the SNS carrier's Inject, given a map that already holds 10 or more
\* entries, writes nothing and returns the maximum-attribute-limit error, as the
\* SQS carrier's Inject does.
C11_SnsLimit ==
    (SnsCall("Inject") /\ ret.ref # NIL /\ Size(ret.before) >= sqsMessageAttributeLimit)
        => /\ ret.err = ErrMaxAttrLimit
           /\ ret.setCalls = 0
           /\ snsAttrs[ret.ref] = ret.before

\* the string payload Get is to return for key in map m
Payload(m, key) ==
    IF key \in DOMAIN m /\ m[key].StringValue # NilPtr THEN m[key].StringValue[1]
    ELSE EmptyString

\* the propagator's Set calls as the entries they leave in a map
Written(calls) == {<<calls[i][1], StringAttribute(calls[i][2])>> : i \in DOMAIN calls}

\* C12: Inject on a non-nil map of fewer than 10 entries returns no error and
\* leaves the carrier attached to that map; every entry the propagator sets is
\* in the caller's own map when Inject returns and the caller's other entries
\* are as they were; an entry the caller writes into the attached map
\* afterwards is what the carrier's Get returns for that key.
C12_InjectShares ==
    /\ [](SqsCall("Inject") /\ ret.ref # NIL /\ Size(ret.before) < sqsMessageAttributeLimit
            => /\ ret.err = ErrNone
               /\ ~ret.panicked
               /\ sqsCarrier.messageAttributes = ret.ref
               /\ LET calls == PropagatorInject(sqsCarrier.propagator, ret.inCtx)
                      m == sqsAttrs[ret.ref]
                  IN  /\ ret.setCalls = Len(calls)
                      /\ \A w \in Written(calls) : w[1] \in DOMAIN m /\ m[w[1]] = w[2]
                      /\ DOMAIN m = (DOMAIN ret.before) \cup {w[1] : w \in Written(calls)}
                      /\ \A k \in (DOMAIN ret.before) \ {w[1] : w \in Written(calls)} :
                            m[k] = ret.before[k])
    /\ [][(ret.op = "sqsSetTraceID" /\ ret.ref = sqsCarrier.messageAttributes
             /\ SqsCall("Get")' /\ ret'.key = ret.key)
            => ret'.out = ret.value]_vars
    /\ [](SqsCall("Get") /\ ret.attached # NIL
            => ret.out = Payload(sqsAttrs[ret.attached], ret.key))

\* the carrier's Get has returned the value the application wrote into its map
\* after Inject had added the b3 entry to the 9 entries that map held
C12_Witness ==
    /\ SqsCall("Get") /\ ret.attached = 1
    /\ ret.key = queueTraceIDAttrOutput /\ ret.out \in AppValues
    /\ b3ContextHeader \in DOMAIN sqsAttrs[1]
    /\ Size(sqsAttrs[1]) = sqsMessageAttributeLimit + 1

CarrierOf(name) == IF name = "sqs" THEN sqsCarrier ELSE snsCarrier

DefaultOf(name) == IF name = "sqs" THEN defaultSqsPropagator ELSE defaultSnsPropagator

AttrsOf(name) == IF name = "sqs" THEN sqsAttrs ELSE snsAttrs

\* C13: NewCarrier gives the carrier the package default of that moment;
\* WithPropagator replaces it on that carrier; SetTextMapPropagator changes the
\* default and leaves both existing carriers as they are; no other call changes
\* a carrier's propagator; Inject writes the keys of the carrier's own
\* propagator, whatever the package default is by then.
C13_PropagatorBinding ==
    /\ [][\A name \in {"sqs", "sns"} :
            /\ (ret'.op = "NewCarrier" /\ ret'.carrier = name)
                  => CarrierOf(name)'.propagator = DefaultOf(name)
            /\ (ret'.op = "WithPropagator" /\ ret'.carrier = name)
                  => /\ CarrierOf(name)'.propagator = ret'.propagator
                     /\ DefaultOf(name)' = DefaultOf(name)
            /\ (ret'.op = "SetTextMapPropagator" /\ ret'.carrier = name)
                  => /\ DefaultOf(name)' = ret'.propagator
                     /\ sqsCarrier' = sqsCarrier
                     /\ snsCarrier' = snsCarrier
            /\ ~(ret'.op \in {"NewCarrier", "WithPropagator"} /\ ret'.carrier = name)
                  => CarrierOf(name)'.propagator = CarrierOf(name).propagator
            /\ (ret'.op = "Inject" /\ ret'.carrier = name /\ ret'.err = ErrNone)
                  => LET calls == PropagatorInject(CarrierOf(name).propagator, ret'.inCtx)
                     IN  /\ DOMAIN AttrsOf(name)'[ret'.ref]
                              = (DOMAIN ret'.before) \cup {w[1] : w \in Written(calls)}
                         /\ \A w \in Written(calls) : AttrsOf(name)'[ret'.ref][w[1]] = w[2]
         ]_vars

\* an Inject through a carrier constructed under the single-header default has
\* written the b3 key alone into an empty map while the default is multi-header
C13_Witness ==
    /\ SqsCall("Inject") /\ ret.err = ErrNone /\ ret.before = EmptyMap
    /\ defaultSqsPropagator = "B3Multi"
    /\ sqsCarrier.propagator = "B3Single"
    /\ DOMAIN sqsAttrs[ret.ref] = {b3ContextHeader}

\* C14: on a carrier that is attached to no map, Get returns the empty string,
\* Keys returns the empty sequence and Set changes no map; the carrier is still
\* unattached after each of the three, and none of them panics.
C14_UnattachedInert ==
    [][\A name \in {"sqs", "sns"} :
         (ret'.carrier = name /\ ret'.op \in {"Get", "Set", "Keys"}
            /\ CarrierOf(name).messageAttributes = NIL)
         => /\ ~ret'.panicked
            /\ ret'.out = EmptyString
            /\ ret'.keys = << >>
            /\ sqsAttrs' = sqsAttrs
            /\ snsAttrs' = snsAttrs
            /\ CarrierOf(name)'.messageAttributes = NIL
      ]_vars

\* Set through an unattached SNS carrier has returned while a map that an
\* earlier carrier filled is there to be written
C14_Witness ==
    /\ ret.op = "Set" /\ ret.carrier = "sns" /\ ret.attached = NIL
    /\ snsCarrier.messageAttributes = NIL
    /\ b3ContextHeader \in DOMAIN snsAttrs[1]
    /\ ret.key \notin DOMAIN snsAttrs[1]

\* C15: Get of a key whose entry has no string payload (a binary entry) returns
\* the empty string and does not panic; Get of any other key that is present
\* returns the entry's string payload.
C15_GetPayload ==
    (ret.op = "Get" /\ ret.attached # NIL /\ ret.key \in DOMAIN ret.before)
        => /\ ~ret.panicked
           /\ ret.before[ret.key].StringValue = NilPtr => ret.out = EmptyString
           /\ ret.before[ret.key].StringValue # NilPtr
                 => ret.out = ret.before[ret.key].StringValue[1]

\* Get has answered for the key of a binary entry
C15_Witness ==
    /\ SqsCall("Get") /\ ret.attached # NIL
    /\ ret.key \in DOMAIN ret.before
    /\ ret.before[ret.key].DataType = Ptr(binaryType)
    /\ ret.before[ret.key].BinaryValue # << >>
    /\ ret.out = EmptyString

\* C16: Keys returns exactly the keys of the attached map, each of them once,
\* whatever the payload kind of the entries: as many elements as the map has
\* entries.
C16_KeysExact ==
    /\ (ret.op = "Keys" /\ ret.attached # NIL)
          => /\ Range(ret.keys) = DOMAIN ret.before
             /\ Len(ret.keys) = Size(ret.before)
             /\ \A i, j \in DOMAIN ret.keys : ret.keys[i] = ret.keys[j] => i = j
    /\ sqsCarrier.messageAttributes # NIL
          => /\ Range(SqsKeys(sqsCarrier, sqsAttrs)) = DOMAIN sqsAttrs[sqsCarrier.messageAttributes]
             /\ Len(SqsKeys(sqsCarrier, sqsAttrs)) = Size(sqsAttrs[sqsCarrier.messageAttributes])
    /\ snsCarrier.messageAttributes # NIL
          => /\ Range(SnsKeys(snsCarrier, snsAttrs)) = DOMAIN snsAttrs[snsCarrier.messageAttributes]
             /\ Len(SnsKeys(snsCarrier, snsAttrs)) = Size(snsAttrs[snsCarrier.messageAttributes])

\* Keys has listed a map that holds a binary entry next to string entries
C16_Witness ==
    /\ SqsCall("Keys") /\ ret.attached # NIL
    /\ \E k \in DOMAIN ret.before : ret.before[k].StringValue = NilPtr
    /\ \E k \in DOMAIN ret.before : ret.before[k].StringValue # NilPtr
    /\ Len(ret.keys) >= 4

\* C17: after Set(k, v) on an attached map the entry at k has the type tag
\* "String", the string payload v and no binary payload, whatever entry was at k
\* before.
C17_SetStringEntry ==
    (ret.op = "Set" /\ ret.attached # NIL)
        => LET m == AttrsOf(ret.carrier)[ret.attached]
           IN  /\ ret.key \in DOMAIN m
               /\ m[ret.key].DataType = << << "String" >> >>
               /\ m[ret.key].StringValue = << ret.value >>
               /\ m[ret.key].BinaryValue = << >>

\* Set has replaced an entry that was binary
C17_Witness ==
    /\ SqsCall("Set") /\ ret.attached # NIL
    /\ ret.key \in DOMAIN ret.before
    /\ ret.before[ret.key].DataType = Ptr(binaryType)
    /\ ret.before[ret.key].BinaryValue # << >>
    /\ sqsAttrs[ret.attached][ret.key].DataType = Ptr(stringType)

\* the last call attached the SQS carrier to its argument
SqsAttached ==
    \/ SqsCall("Inject") /\ ret.err = ErrNone /\ ~ret.panicked
    \/ SqsCall("Extract") /\ ret.ref # NIL /\ ~ret.panicked

\* C18: a successful Inject or Extract leaves the carrier attached to the map it
\* was given, whatever map the carrier had before; from then on Get and Keys
\* answer from that map, Set writes that map, Inject writes only its argument
\* and Extract decodes only its argument: no other map is read or written
\* through the carrier.
C18_LatestAttachment ==
    /\ [](SqsAttached => sqsCarrier.messageAttributes = ret.ref)
    /\ [][LET cur == sqsCarrier.messageAttributes
          IN  /\ (SqsCall("Get")' /\ cur # NIL)
                    => ret'.out = Payload(sqsAttrs[cur], ret'.key)
              /\ (SqsCall("Keys")' /\ cur # NIL)
                    => Range(ret'.keys) = DOMAIN sqsAttrs[cur]
              /\ (SqsCall("Set")' /\ cur # NIL)
                    => /\ \A r \in SqsRefs \ {cur} : sqsAttrs'[r] = sqsAttrs[r]
                       /\ Payload(sqsAttrs'[cur], ret'.key) = ret'.value
              /\ SqsCall("Inject")'
                    => \A r \in SqsRefs \ {ret'.ref} : sqsAttrs'[r] = sqsAttrs[r]
              /\ (SqsCall("Extract")' /\ ret'.ref # NIL)
                    => /\ sqsAttrs' = sqsAttrs
                       /\ ret'.ctx = PropagatorExtract(sqsCarrier.propagator, ret'.inCtx,
                                        [k \in TraceKeys |-> Payload(sqsAttrs[ret'.ref], k)])
         ]_vars

\* Set has written S2 after the carrier had written key1 into S1, and the two
\* maps differ at key1
C18_Witness ==
    /\ SqsCall("Set") /\ ret.attached = 2 /\ ret.key = "key1"
    /\ "key1" \in DOMAIN sqsAttrs[1]
    /\ sqsAttrs[1]["key1"] # sqsAttrs[2]["key1"]

\* goroutine g takes its attach step / performs one Set of its propagator
Attaches(g) == goroutines[g].pc = "attach" /\ goroutines'[g].pc # "attach"

Sets(g) == goroutines[g].pc = "set" /\ goroutines'[g].calls # goroutines[g].calls

\* the entry an Inject of context ctx through the single-header propagator leaves
B3Entry(ctx) == StringAttribute(B3SingleInject(ctx)[1][2])

\* C19: with one carrier shared by two goroutines and no synchronization, attach
\* overwrites the carrier's map with the caller's own whatever call is in
\* flight, and each Set writes the map the carrier holds at that moment, the
\* one of the goroutine that attached last, not the one the calling goroutine
\* attached; the interleaving in which the first call's context lands in the
\* second call's map is the witness.
C19_SharedCarrierRace ==
    [][\A g \in Goroutines :
         LET t == goroutines[g]
             cur == carriers[t.c].messageAttributes
         IN  /\ Attaches(g) => carriers'[t.c].messageAttributes = t.ref
             /\ Sets(g) => /\ goroutines'[g].wrote = t.wrote \cup {cur}
                           /\ \A r \in SqsRefs \ {cur} : sqsAttrs'[r] = sqsAttrs[r]
                           /\ cur # NIL
                           /\ Head(t.calls)[1] \in DOMAIN sqsAttrs'[cur]
                           /\ sqsAttrs'[cur][Head(t.calls)[1]]
                                 = StringAttribute(Head(t.calls)[2])
      ]_vars

\* goroutine 1 has returned from Inject without error: its context, trace 1, is
\* in the map of goroutine 2 and its own map is still empty, because goroutine
\* 2, injecting trace 2, attached the carrier in between and has not Set yet
C19_Witness ==
    /\ goroutines[1].pc = "done" /\ goroutines[1].op = "Inject"
    /\ goroutines[1].err = ErrNone
    /\ goroutines[1].ctx.traceID = 1
    /\ goroutines[1].wrote = {2}
    /\ goroutines[2].pc = "set" /\ goroutines[2].calls # << >>
    /\ goroutines[2].ctx.traceID = 2
    /\ goroutines[1].c = goroutines[2].c
    /\ sqsAttrs[1] = EmptyMap
    /\ b3ContextHeader \in DOMAIN sqsAttrs[2]
    /\ sqsAttrs[2][b3ContextHeader] = B3Entry(goroutines[1].ctx)

\* C20: with a carrier of its own for every call, whatever the interleaving of
\* two goroutines' Inject and Extract calls on their own maps: every Set of a
\* call writes that call's map and every Get reads it; when Inject returns, the
\* call's map holds the entries of its own context; Extract returns the
\* decoding of its own map.
C20_PerOperationIsolation ==
    \A g \in Goroutines :
       LET t == goroutines[g]
       IN  /\ t.wrote \subseteq {t.ref}
           /\ t.readFrom \subseteq {t.ref}
           /\ t.pc \in {"set", "get"} => carriers[t.c].messageAttributes = t.ref
           /\ (t.pc = "done" /\ t.op = "Inject" /\ t.err = ErrNone)
                 => /\ t.wrote = {t.ref}
                    /\ \A w \in Written(PropagatorInject(carriers[t.c].propagator, t.ctx)) :
                          w[1] \in DOMAIN sqsAttrs[t.ref] /\ sqsAttrs[t.ref][w[1]] = w[2]
           /\ (t.pc = "done" /\ t.op = "Extract")
                 => t.out = PropagatorExtract(carriers[t.c].propagator, t.ctx,
                               [k \in TraceKeys |-> Payload(sqsAttrs[t.ref], k)])

\* goroutine 1 has returned from Inject with trace 1 in its own map while
\* goroutine 2, injecting trace 2, stands between its attach and its Set
C20_Witness ==
    /\ goroutines[1].pc = "done" /\ goroutines[1].op = "Inject"
    /\ goroutines[1].ctx.traceID = 1
    /\ goroutines[1].wrote = {1}
    /\ sqsAttrs[1][b3ContextHeader] = B3Entry(goroutines[1].ctx)
    /\ goroutines[2].pc = "set" /\ goroutines[2].calls # << >>
    /\ goroutines[2].ctx.traceID = 2
    /\ goroutines[1].c # goroutines[2].c
    /\ b3ContextHeader \notin DOMAIN sqsAttrs[2]

\* C21: a public entry point of the SNS carrier (Inject, NewCarrierAttributes,
\* InjectIntoSnsMessageAttributes) given a publish input whose MessageAttributes
\* is nil does not panic.
C21_SnsNilNoPanic ==
    (ret.carrier = "sns" /\ ret.ref = NIL
       /\ ret.op \in {"Inject", "NewCarrierAttributes", "InjectIntoSnsMessageAttributes"})
        => ~ret.panicked

\* what sqsHandle did with message j of the batch, and the delete that followed
Handling(j) == listener.handled[j]
Deletion(j) == listener.deletes[j]

\* C22: in the listener loop a received message is deleted from the input queue
\* only on success: a message whose forwarding to the output queue or to the
\* HTTP backend failed is not deleted.
C22_DeleteOnlyOnSuccess ==
    \A j \in DOMAIN listener.deletes :
        Deletion(j).ok => (Handling(Deletion(j).after).sendOk /\ Handling(Deletion(j).after).httpOk)

\* the loop's position agrees with what was handled and deleted of the batch
InBatchOrder ==
    /\ Len(listener.handled) <= Len(listener.batch)
    /\ Len(listener.deletes) <= Len(listener.handled)
    /\ \A j \in DOMAIN listener.handled : Handling(j).m = listener.batch[j]
    /\ \A j \in DOMAIN listener.deletes :
          Deletion(j).m = listener.batch[j] /\ Deletion(j).after = j
    /\ listener.pc = "handle" =>
          Len(listener.handled) = listener.i - 1 /\ Len(listener.deletes) = listener.i - 1
    /\ listener.pc = "delete" =>
          Len(listener.handled) = listener.i /\ Len(listener.deletes) = listener.i - 1
    /\ listener.pc = "deleteCooldown" =>
          /\ Len(listener.handled) = listener.i
          /\ Len(listener.deletes) = listener.i
          /\ ~Deletion(listener.i).ok
    /\ listener.pc \in {"receive", "cooldown"} =>
          /\ Len(listener.handled) = Len(listener.batch)
          /\ Len(listener.deletes) = Len(listener.batch)

\* after the sleep that follows a failed delete the loop moves on
MovesOn ==
    listener.pc = "deleteCooldown" =>
        /\ listener'.deletes = listener.deletes
        /\ listener'.queue = listener.queue
        /\ listener'.pc = IF listener.i < Len(listener.batch) THEN "handle" ELSE "receive"

\* C23: for every received batch the listener processes the messages one after
\* the other in batch order: each message is handled exactly once, its single
\* delete attempt comes after its handling and before the next message's
\* handling, and a failed delete is not retried: the loop sleeps and moves on.
C23_SequentialBatch == []InBatchOrder /\ [][MovesOn]_vars

\* both messages of a batch were handled, the first one's delete failed and the
\* second one's went through
C23_Witness ==
    /\ listener.pc = "receive"
    /\ Len(listener.batch) = 2
    /\ Len(listener.handled) = 2
    /\ Len(listener.deletes) = 2
    /\ ~Deletion(1).ok
    /\ Deletion(2).ok

\* the positions of the loop: none of them is past the for statement
LoopPositions == {"receive", "cooldown", "handle", "delete", "deleteCooldown"}

\* an iteration whose receive failed or returned nothing does no more than sleep
IdleIteration ==
    (listener.pc = "receive" /\ listener'.pc # "handle") =>
        /\ listener'.pc = "cooldown"
        /\ listener'.queue = listener.queue
        /\ listener'.handled = << >>
        /\ listener'.deletes = << >>
        /\ UNCHANGED <<sqsAttrs, sqsCarrier, ret>>

\* message m of the batch is still to be handled
Pending(m) ==
    /\ listener.pc \in {"handle", "delete", "deleteCooldown"}
    /\ \E j \in DOMAIN listener.batch : listener.batch[j] = m /\ j > Len(listener.handled)

\* message m of the batch was handled
Handled(m) == \E j \in DOMAIN listener.handled : Handling(j).m = m

\* C24: the listener loop never exits: after a ReceiveMessage error or an empty
\* receive it handles and deletes nothing in that iteration and, once the
\* cooldown has elapsed, issues ReceiveMessage again; under fairness every
\* message a receive returns is eventually handled.
C24_LoopForever ==
    /\ [](listener.pc \in LoopPositions /\ ~ret.panicked)
    /\ [][IdleIteration]_vars
    /\ (listener.pc = "cooldown") ~> (listener.pc = "receive")
    /\ []<>(listener.pc = "receive")
    /\ \A m \in Msgs : Pending(m) ~> Handled(m)

\* the loop sleeps after a receive that brought nothing, after it had handled
\* and deleted a message in an iteration before
C24_Witness ==
    /\ listener.pc = "cooldown"
    /\ listener.batch = << >>
    /\ listener.queue # Msgs

\* the context that message m's own attributes hold, from the background context
OwnContext(m) ==
    IF listener.attrs[m] = NIL THEN NoSpan
    ELSE B3Extract(NoSpan, [k \in TraceKeys |-> Payload(sqsAttrs[listener.attrs[m]], k)])

\* C25: when one carrier is reused for a stream of messages, as the listener
\* does, the context extracted for each message depends only on that message's
\* own attributes and the input context, never on the attributes of a message
\* handled earlier, also when the message's attribute map is nil or empty.
C25_NoCarryOver ==
    \A j \in DOMAIN listener.handled : Handling(j).ctx = OwnContext(Handling(j).m)

\* a message without a map was handled right after one that carried a trace,
\* with the carrier still on the first one's map
C25_Witness ==
    /\ Len(listener.handled) = 2
    /\ Handling(1).ctx # NoSpan
    /\ listener.attrs[Handling(2).m] = NIL
    /\ Handling(2).ctx = NoSpan
    /\ sqsCarrier.messageAttributes = listener.attrs[Handling(1).m]

\* the last call was op on the carrier bound to the message
MessageCall(op) == ret.carrier = "msg" /\ ret.op = op /\ ~ret.panicked

\* C26: in the carrier bound to a whole SQS message, when the message's
\* attribute map is nil, Keys returns nothing and Get returns the empty string,
\* and Set(k, v) makes the map on the message and stores the entry, so that
\* Get(k) right after Set(k, v) returns v, and an Inject of a valid context into
\* a message without attributes leaves the headers on the message.
C26_MessageNilMap ==
    /\ (MessageCall("Keys") /\ ret.attached = NIL) => ret.keys = << >>
    /\ (MessageCall("Get") /\ ret.attached = NIL) => ret.out = EmptyString
    /\ (MessageCall("Set") /\ ret.attached = NIL) =>
          /\ msgAttrs # NIL
          /\ DOMAIN sqsAttrs[msgAttrs] = {ret.key}
          /\ sqsAttrs[msgAttrs][ret.key] = StringAttribute(ret.value)
    /\ (MessageCall("Get") /\ ret.twice) => ret.out = ret.value
    /\ (MessageCall("Inject") /\ ret.attached = NIL /\ ret.inCtx # NoSpan) =>
          /\ msgAttrs # NIL
          /\ \A j \in DOMAIN PropagatorInject(ret.propagator, ret.inCtx) :
                Payload(sqsAttrs[msgAttrs], PropagatorInject(ret.propagator, ret.inCtx)[j][1])
                    = PropagatorInject(ret.propagator, ret.inCtx)[j][2]

\* Get returns the value that Set had just stored on a message without a map
C26_Witness ==
    /\ MessageCall("Get")
    /\ ret.twice
    /\ ret.out = << "value1" >>
    /\ DOMAIN sqsAttrs[msgAttrs] = {"key1"}

\* C27: in the carriers whose Inject and Extract test for a nil store before
\* attaching, the panic in attach is never reached, whatever the sequence of
\* calls to NewCarrier, WithPropagator, Inject, Extract, Get, Set and Keys and
\* whatever their arguments, nil stores included.
C27_AttachNeverPanics == ~ret.panicked

\* Extract was given a nil store by a carrier that was attached to a map, and
\* returned
C27_Witness ==
    /\ SqsCall("Extract")
    /\ ret.ref = NIL
    /\ ret.attached # NIL
    /\ ~ret.panicked

\* the last call was rejected: Inject returned ErrMessageAttributesIsNil or
\* ErrMaxAttrLimit, or Extract was given a nil store
RejectedCall ==
    \/ SqsCall("Inject") /\ ret.err \in {ErrMessageAttributesIsNil, ErrMaxAttrLimit}
    \/ SqsCall("Extract") /\ ret.ref = NIL

\* a rejected call leaves the attachment and every store as they were
RejectKeepsAttachment ==
    RejectedCall' =>
        /\ sqsCarrier'.messageAttributes = sqsCarrier.messageAttributes
        /\ sqsAttrs' = sqsAttrs

\* C28 as stated: a rejected call does not change the carrier's attachment, and
\* the rejected store is never written through a later Set.
C28_RejectedNeverWritten ==
    [][/\ RejectKeepsAttachment
       /\ (RejectedCall /\ ret.ref # NIL /\ SqsCall("Set")') =>
              sqsAttrs'[ret.ref] = sqsAttrs[ret.ref]]_vars

\* C28: a rejected call does not change the carrier's attachment (after Inject
\* returned ErrMessageAttributesIsNil or ErrMaxAttrLimit, or Extract was given a
\* nil store, the carrier is attached to the store it was attached to before,
\* or still unattached), and a later Set writes the rejected store only if the
\* carrier was attached to that very store before the rejected call.
C28_RejectKeepsAttachment ==
    [][/\ RejectKeepsAttachment
       /\ (RejectedCall /\ ret.ref # NIL /\ ret.ref # ret.attached /\ SqsCall("Set")') =>
              sqsAttrs'[ret.ref] = sqsAttrs[ret.ref]]_vars

\* Inject into a map at the limit was rejected while the carrier was attached
\* to another map, and the carrier is still attached to that one
C28_Witness ==
    /\ SqsCall("Inject")
    /\ ret.err = ErrMaxAttrLimit
    /\ ret.attached # NIL
    /\ ret.attached # ret.ref
    /\ sqsCarrier.messageAttributes = ret.attached

\* the last call wrote through the SQS carrier, through the SNS carrier
SqsWrote == SqsCall("Set") \/ (SqsCall("Inject") /\ ret.setCalls > 0)
SnsWrote == SnsCall("Set") \/ (SnsCall("Inject") /\ ret.setCalls > 0)

\* C29: no carrier operation (Inject, Extract, Get, Set, Keys) removes a key
\* from a store: the key set of every store only grows, and it grows only
\* through Set (the propagator's Set calls of Inject included) on the store the
\* carrier is attached to at that moment.
C29_KeysOnlyGrow ==
    [][/\ \A r \in SqsRefs :
             /\ DOMAIN sqsAttrs[r] \subseteq DOMAIN sqsAttrs'[r]
             /\ DOMAIN sqsAttrs'[r] # DOMAIN sqsAttrs[r] =>
                   (SqsWrote' /\ r = sqsCarrier'.messageAttributes)
       /\ \A r \in SnsRefs :
             /\ DOMAIN snsAttrs[r] \subseteq DOMAIN snsAttrs'[r]
             /\ DOMAIN snsAttrs'[r] # DOMAIN snsAttrs[r] =>
                   (SnsWrote' /\ r = snsCarrier'.messageAttributes)]_vars

\* Set added a key to the attached map, which held other keys and holds them
\* still
C29_Witness ==
    /\ SqsCall("Set")
    /\ ret.attached # NIL
    /\ ret.before # EmptyMap
    /\ ret.key \notin DOMAIN ret.before
    /\ DOMAIN sqsAttrs[ret.attached] = DOMAIN ret.before \cup {ret.key}

\* C30: Get and Keys are pure reads: they change neither the contents of any
\* store nor the carrier's attachment, so Extract, whose propagator calls back
\* only into Get and Keys, leaves the inbound store exactly as it was received.
C30_PureReads ==
    [][/\ (ret'.op \in {"Get", "Keys"} /\ ret'.carrier \in {"sqs", "sns"}) =>
             UNCHANGED <<sqsAttrs, snsAttrs, sqsCarrier, snsCarrier>>
       /\ SqsCall("Extract")' =>
             /\ UNCHANGED <<sqsAttrs, snsAttrs>>
             /\ ret'.ref # NIL => sqsAttrs'[ret'.ref] = ret'.before]_vars

\* Extract read a trace out of the map, and the map is as it was handed in
C30_Witness ==
    /\ SqsCall("Extract")
    /\ ret.ref # NIL
    /\ ret.ctx # ret.inCtx
    /\ b3ContextHeader \in DOMAIN ret.before
    /\ sqsAttrs[ret.ref] = ret.before

====
